---- MODULE Spec2Model ----
(***************************************************************************)
(* Model of the rogue-reborn asset decoders.                               *)
(*                                                                         *)
(* Part 1: src/src/rsb.rs.  rsb::read is a forward pass over an immutable  *)
(* byte buffer; it is modelled statement by statement with a program       *)
(* counter.  The accessors of BitMask, Pixel and MaskedPixel are pure      *)
(* functions, modelled as operators and exercised by SpecPixel.            *)
(*                                                                         *)
(* Unsigned integers are kept as their little-endian bytes (a u32 is a     *)
(* sequence of four bytes, a u16 of two), exactly as they lie in the file, *)
(* so that 32-bit overflow and shift overflow are those of the program.    *)
(* Arithmetic overflow and shift overflow panic when the build has         *)
(* overflow checks ("debug") and wrap when it has not ("release").         *)
(***************************************************************************)
EXTENDS Integers, Sequences, FiniteSets, TLC

VARIABLES
    build,          \* "debug" (overflow checks on) or "release" (wrapping)
    buf,            \* rsb::read: the whole file, Cursor<Vec<u8>> contents
    pos,            \* rsb::read: cursor position (bytes consumed)
    pc,             \* rsb::read: position in the function body
    rsb,            \* rsb::read: the Rsb under construction
    palette,        \* rsb::read: local `palette` of the version-0 block
    size,           \* rsb::read: local `size`
    masked_pixels,  \* rsb::read: local `masked_pixels`
    err,            \* rsb::read: the error returned, "" while none
    pixel,          \* accessor calls: the Pixel or MaskedPixel receiver
    bitmask,        \* accessor calls: the BitMask argument
    call,           \* accessor calls: last call made and its outcome
    map,            \* Map::read: the sections decoded so far (its locals)
    chain,          \* Map::read: context labels of the error, outermost first
    mlog            \* Map::read: record of what each read took from the file

rsbVars == <<buf, pos, pc, rsb, palette, size, masked_pixels, err>>
pixVars == <<pixel, bitmask, call>>
mapVars == <<map, chain, mlog>>
vars == <<build, buf, pos, pc, rsb, palette, size, masked_pixels, err,
          pixel, bitmask, call, map, chain, mlog>>

(***************************************************************************)
(* Bounds of the model                                                     *)
(***************************************************************************)
MaxDim == 2
MaxVersion == 3
MaxPalette == 2
TableProbe == 2
MaxCount == 2
MaxText == 3

(***************************************************************************)
(* Little-endian unsigned integers                                         *)
(***************************************************************************)
Byte == 0..255

\* the k-byte little-endian encoding of a natural n < 2^31
LE(n, k) == [i \in 1..k |-> IF i > 4 THEN 0 ELSE (n \div (256 ^ (i - 1))) % 256]

U32(n) == LE(n, 4)
U16(n) == LE(n, 2)
U32Max == <<255, 255, 255, 255>>

IsZero(x) == \A i \in 1..Len(x) : x[i] = 0

\* the value fits in 31 bits, so it is an integer of the checker
IsSmall(x) == \A i \in 1..Len(x) : (i > 4 => x[i] = 0) /\ (i = 4 => x[i] < 128)

RECURSIVE ToNat(_)
ToNat(x) == IF x = <<>> THEN 0 ELSE x[1] + 256 * ToNat(Tail(x))

\* n < x, for an integer n and an encoded x
NatLess(n, x) == IF IsSmall(x) THEN n < ToNat(x) ELSE TRUE

\* x >= n, for an encoded x and a small integer n
AtLeast(x, n) == IF IsSmall(x) THEN ToNat(x) >= n ELSE TRUE

\* bit i of x (bit 0 is the least significant), 0 beyond the width
BitOf(x, i) == IF i < 0 \/ i >= 8 * Len(x) THEN 0
               ELSE (x[(i \div 8) + 1] \div (2 ^ (i % 8))) % 2

\* the byte whose bits are F(8k-8) .. F(8k-1)
ByteOfBits(F(_), k) ==
    LET b == 8 * (k - 1)
    IN  F(b) + 2 * F(b + 1) + 4 * F(b + 2) + 8 * F(b + 3) + 16 * F(b + 4)
        + 32 * F(b + 5) + 64 * F(b + 6) + 128 * F(b + 7)

\* x << s and x >> s within the width of x, for 0 <= s < width
Shl(x, s) == [k \in 1..Len(x) |-> ByteOfBits(LAMBDA i : BitOf(x, i - s), k)]
Shr(x, s) == [k \in 1..Len(x) |-> ByteOfBits(LAMBDA i : BitOf(x, i + s), k)]
BitAnd(x, y) == [k \in 1..Len(x) |-> ByteOfBits(LAMBDA i : BitOf(x, i) * BitOf(y, i), k)]

\* x - 1, wrapping
RECURSIVE Dec(_)
Dec(x) == IF x = <<>> THEN <<>>
          ELSE IF x[1] > 0 THEN <<x[1] - 1>> \o Tail(x)
          ELSE <<255>> \o Dec(Tail(x))

\* x + y with the carry c: the bytes of the sum followed by the carry out
RECURSIVE AddCarry(_, _, _)
AddCarry(x, y, c) ==
    IF x = <<>> THEN <<c>>
    ELSE LET s == x[1] + y[1] + c
         IN  <<s % 256>> \o AddCarry(Tail(x), Tail(y), s \div 256)

\* x + y in the width of x: the wrapped sum and whether it overflowed
Add(x, y) == LET s == AddCarry(x, y, 0)
             IN  [val |-> SubSeq(s, 1, Len(x)), ovf |-> s[Len(x) + 1] > 0]

\* column k (from 0) of the schoolbook product of x and y
RECURSIVE Column(_, _, _, _)
Column(x, y, k, i) ==
    IF i > Len(x) THEN 0
    ELSE (IF k - i + 2 \in 1..Len(y) THEN x[i] * y[k - i + 2] ELSE 0)
         + Column(x, y, k, i + 1)

\* the full product of x and y, Len(x) + Len(y) bytes
RECURSIVE MulFrom(_, _, _, _)
MulFrom(x, y, k, c) ==
    IF k = Len(x) + Len(y) THEN <<>>
    ELSE LET t == Column(x, y, k, 1) + c
         IN  <<t % 256>> \o MulFrom(x, y, k + 1, t \div 256)

FullMul(x, y) == MulFrom(x, y, 0, 0)

\* x * y in the width of x: the wrapped product and whether it overflowed
Mul(x, y) == LET p == FullMul(x, y)
             IN  [val |-> SubSeq(p, 1, Len(x)),
                  ovf |-> ~ IsZero(SubSeq(p, Len(x) + 1, Len(p)))]

\* u16 -> u32 (`.into()`)
Widen(x) == x \o <<0, 0>>

\* Option<T>, and the outcome of a call that may panic
None == [some |-> FALSE, panic |-> FALSE]
Some(v) == [some |-> TRUE, panic |-> FALSE, val |-> v]
Panic == [some |-> FALSE, panic |-> TRUE]
IsSomeEq(o, v) == o.some /\ o.val = v

(***************************************************************************)
(* BitMask (rsb.rs 154-186)                                                *)
(***************************************************************************)
BitMask(r, g, b, a) == [r |-> r, g |-> g, b |-> b, a |-> a]
BitMaskDefault == BitMask(U32(0), U32(0), U32(0), U32(0))

\* a + b + c ... evaluated left to right in u32: each `+` panics on overflow
\* when overflow checks are on and wraps otherwise
Sum(xs, bld) ==
    LET RECURSIVE Go(_, _)
        Go(acc, rest) ==
            IF rest = <<>> THEN Some(acc)
            ELSE LET s == Add(acc, rest[1])
                 IN  IF s.ovf /\ bld = "debug" THEN Panic
                     ELSE Go(s.val, Tail(rest))
    IN  Go(xs[1], Tail(xs))

\* BitMask::bits: Some(sum), or Panic
BitMask_bits(m, bld) == Sum(<<m.r, m.g, m.b, m.a>>, bld)

\* BitMask::is_argb: Some(boolean), or Panic
BitMask_is_argb(m, bld) ==
    LET s == BitMask_bits(m, bld)
    IN  IF s.some THEN Some(s.val = U32(32)) ELSE Panic

(***************************************************************************)
(* rsb::read (rsb.rs 8-87)                                                 *)
(***************************************************************************)
PaletteColor(b, g, r, a) == [b |-> b, g |-> g, r |-> r, a |-> a]

PaletteColorIndex(v) == [kind |-> "PaletteColorIndex", bits |-> <<v>>]
Argb(v) == [kind |-> "Argb", bits |-> v]
Bgra(v) == [kind |-> "Bgra", bits |-> v]
MaskedPixel(v) == [kind |-> "MaskedPixel", bits |-> v]

RsbDefault ==
    [version |-> U32(0), width |-> U32(0), height |-> U32(0),
     palette |-> None, palette_colors |-> None, bitmask |-> BitMaskDefault,
     pixels |-> <<>>, masked_pixels |-> None]

\* Cursor: enough bytes left for a read of n bytes, and the bytes it returns
CanRead(n) == pos + n <= Len(buf)
Peek(n) == SubSeq(buf, pos + 1, pos + n)

\* a failed read_exact leaves the cursor at the end of the buffer and the
\* `?` returns the error
Eof == /\ pc' = "err"
       /\ err' = "UnexpectedEof"
       /\ pos' = Len(buf)

\* tmp.windows(4): every run of 4 consecutive bytes, one per start index
Windows4(tmp) == [i \in 1..(Len(tmp) - 3) |-> SubSeq(tmp, i, i + 3)]

PaletteTableLen == 1024

IsPalette1 == rsb.version = U32(0) /\ IsSomeEq(rsb.palette, U32(1))

\* line 20: the versions that are handled
VersionSupported_upto2(v) == ~ AtLeast(v, 3)

VersionSupported(v) == ~ AtLeast(v, 2)

\* line 18-22
ReadVersion ==
    /\ pc = "version"
    /\ IF ~ CanRead(4)
       THEN Eof /\ UNCHANGED rsb
       ELSE /\ rsb' = [rsb EXCEPT !.version = Peek(4)]
            /\ pos' = pos + 4
            /\ IF ~ VersionSupported(Peek(4))
               THEN pc' = "err" /\ err' = "UnsupportedVersion"
               ELSE pc' = "width" /\ err' = err
    /\ UNCHANGED <<build, buf, palette, size, masked_pixels, pixVars, mapVars>>

\* line 24
ReadWidth ==
    /\ pc = "width"
    /\ IF ~ CanRead(4)
       THEN Eof /\ UNCHANGED rsb
       ELSE /\ rsb' = [rsb EXCEPT !.width = Peek(4)]
            /\ pos' = pos + 4
            /\ pc' = "height"
            /\ err' = err
    /\ UNCHANGED <<build, buf, palette, size, masked_pixels, pixVars, mapVars>>

\* line 25-26: the height, then the branch on the version
ReadHeight ==
    /\ pc = "height"
    /\ IF ~ CanRead(4)
       THEN Eof /\ UNCHANGED rsb
       ELSE /\ rsb' = [rsb EXCEPT !.height = Peek(4)]
            /\ pos' = pos + 4
            /\ pc' = IF rsb.version = U32(0) THEN "palette" ELSE "bitmask"
            /\ err' = err
    /\ UNCHANGED <<build, buf, palette, size, masked_pixels, pixVars, mapVars>>

\* line 27-30, 43-46: the palette selector
ReadPalette ==
    /\ pc = "palette"
    /\ IF ~ CanRead(4)
       THEN Eof /\ UNCHANGED palette
       ELSE /\ palette' = Some(Peek(4))
            /\ pos' = pos + 4
            /\ IF Peek(4) = U32(0) THEN pc' = "bitmask" /\ err' = err
               ELSE IF Peek(4) = U32(1) THEN pc' = "table" /\ err' = err
               ELSE pc' = "err" /\ err' = "UnsupportedPalette"
    /\ UNCHANGED <<build, buf, rsb, size, masked_pixels, pixVars, mapVars>>

\* BitMask::try_new (line 165-173): four u32 in the order r, g, b, a
BitMask_try_new ==
    BitMask(SubSeq(buf, pos + 1, pos + 4), SubSeq(buf, pos + 5, pos + 8),
            SubSeq(buf, pos + 9, pos + 12), SubSeq(buf, pos + 13, pos + 16))

\* line 26, 47 and 50: the value the if-expression gives rsb.palette
PaletteField_none(version, sel) == None

PaletteField(version, sel) == IF version = U32(0) THEN sel ELSE None

\* line 29 and 47 (version 0, palette 0), line 49-50 (version 1)
ReadBitMask ==
    /\ pc = "bitmask"
    /\ IF ~ CanRead(16)
       THEN Eof /\ UNCHANGED rsb
       ELSE /\ rsb' = [rsb EXCEPT !.bitmask = BitMask_try_new,
                                  !.palette = PaletteField(rsb.version, palette)]
            /\ pos' = pos + 16
            /\ pc' = "size"
            /\ err' = err
    /\ UNCHANGED <<build, buf, palette, size, masked_pixels, pixVars, mapVars>>

\* line 31-42 and 47: the palette table
PaletteColors(tmp) ==
    LET ws == Windows4(tmp)
    IN  [i \in 1..Len(ws) |-> PaletteColor(ws[i][1], ws[i][2], ws[i][3], ws[i][4])]

ReadPaletteTable ==
    /\ pc = "table"
    /\ IF ~ CanRead(PaletteTableLen)
       THEN Eof /\ UNCHANGED rsb
       ELSE /\ rsb' = [rsb EXCEPT !.palette_colors = Some(PaletteColors(Peek(PaletteTableLen))),
                                  !.palette = PaletteField(rsb.version, palette)]
            /\ pos' = pos + PaletteTableLen
            /\ pc' = "size"
            /\ err' = err
    /\ UNCHANGED <<build, buf, palette, size, masked_pixels, pixVars, mapVars>>

\* line 53-54: size = (width * height) as usize
ComputeSize ==
    /\ pc = "size"
    /\ LET p == Mul(rsb.width, rsb.height)
       IN  IF p.ovf /\ build = "debug"
           THEN pc' = "panic" /\ size' = size
           ELSE pc' = "pixels" /\ size' = p.val
    /\ UNCHANGED <<build, buf, pos, rsb, palette, masked_pixels, err, pixVars, mapVars>>

\* line 65-70: the variant of a packed pixel
PackedPixel_swapped(value, argb) == IF argb THEN Bgra(value) ELSE Argb(value)

PackedPixel(value, argb) == IF argb THEN Argb(value) ELSE Bgra(value)

\* line 55-73: one iteration of the pixel loop
ReadPixel ==
    /\ pc = "pixels"
    /\ NatLess(Len(rsb.pixels), size)
    /\ IF IsPalette1
       THEN IF ~ CanRead(1)
            THEN Eof /\ UNCHANGED rsb
            ELSE /\ rsb' = [rsb EXCEPT !.pixels = Append(@, PaletteColorIndex(buf[pos + 1]))]
                 /\ pos' = pos + 1
                 /\ UNCHANGED <<pc, err>>
       ELSE IF ~ CanRead(2)
            THEN Eof /\ UNCHANGED rsb
            ELSE LET value == Widen(Peek(2))
                     argb == BitMask_is_argb(rsb.bitmask, build)
                 IN  IF ~ argb.some
                     THEN /\ pc' = "panic"
                          /\ pos' = pos + 2
                          /\ UNCHANGED <<rsb, err>>
                     ELSE /\ rsb' = [rsb EXCEPT !.pixels =
                                        Append(@, PackedPixel(value, argb.val))]
                          /\ pos' = pos + 2
                          /\ UNCHANGED <<pc, err>>
    /\ UNCHANGED <<build, buf, palette, size, masked_pixels, pixVars, mapVars>>

\* line 55 (loop exit), 75 and 86
PixelsDone ==
    /\ pc = "pixels"
    /\ ~ NatLess(Len(rsb.pixels), size)
    /\ pc' = IF IsPalette1 THEN "bitmask2" ELSE "ok"
    /\ UNCHANGED <<build, buf, pos, rsb, palette, size, masked_pixels, err, pixVars, mapVars>>

\* line 76-78
ReadBitMask2 ==
    /\ pc = "bitmask2"
    /\ IF ~ CanRead(16)
       THEN Eof /\ UNCHANGED <<rsb, masked_pixels>>
       ELSE /\ rsb' = [rsb EXCEPT !.bitmask = BitMask_try_new]
            /\ masked_pixels' = <<>>
            /\ pos' = pos + 16
            /\ pc' = "masked"
            /\ err' = err
    /\ UNCHANGED <<build, buf, palette, size, pixVars, mapVars>>

\* line 79-82: one iteration of the masked pixel loop
ReadMaskedPixel ==
    /\ pc = "masked"
    /\ NatLess(Len(masked_pixels), size)
    /\ IF ~ CanRead(2)
       THEN Eof /\ UNCHANGED masked_pixels
       ELSE /\ masked_pixels' = Append(masked_pixels, MaskedPixel(Peek(2)))
            /\ pos' = pos + 2
            /\ UNCHANGED <<pc, err>>
    /\ UNCHANGED <<build, buf, rsb, palette, size, pixVars, mapVars>>

\* line 79 (loop exit), 83 and 86
MaskedDone ==
    /\ pc = "masked"
    /\ ~ NatLess(Len(masked_pixels), size)
    /\ rsb' = [rsb EXCEPT !.masked_pixels = Some(masked_pixels)]
    /\ pc' = "ok"
    /\ UNCHANGED <<build, buf, pos, palette, size, masked_pixels, err, pixVars, mapVars>>

\* Rsb::size (line 126-131): Some(product), or Panic
Rsb_size(x, bld) ==
    LET p == Mul(x.width, x.height)
    IN  IF p.ovf /\ bld = "debug" THEN Panic ELSE Some(p.val)

(***************************************************************************)
(* The files rsb::read is run on                                           *)
(***************************************************************************)
M565 == BitMask(U32(5), U32(6), U32(5), U32(0))
M4444 == BitMask(U32(4), U32(4), U32(4), U32(4))
M8888 == BitMask(U32(8), U32(8), U32(8), U32(8))
\* widths whose 32-bit sum wraps around to 32
MWrap == BitMask(U32Max, U32(33), U32(0), U32(0))

FileMasks == {M565, M8888, MWrap}

\* 2^31 + 1: twice this is 2^32 + 2
BigOdd == <<1, 0, 0, 128>>

DimPairs ==
    {<<U32(w), U32(h)>> : w \in 0..MaxDim, h \in 0..MaxDim}
    \cup {<<U32(65536), U32(65536)>>, <<BigOdd, U32(2)>>, <<U32(65536), U32(1)>>}

\* pixel words taken from the repository's test vectors (rsb.rs 321-327, 383-388)
SampleBytes == <<70, 41, 102, 41, 69, 33, 37, 33, 5, 33, 8, 66, 98, 16, 163, 16, 4, 33>>
Sample(n) == [i \in 1..n |-> SampleBytes[((i - 1) % Len(SampleBytes)) + 1]]

SampleTable == [i \in 1..PaletteTableLen |-> (7 * i + 3) % 256]

MaskBytes(m) == m.r \o m.g \o m.b \o m.a

\* the number of pixels a file of these dimensions is given
Pixels(w, h) == LET p == Mul(w, h).val
                IN  IF IsSmall(p) /\ ToNat(p) <= (MaxDim + 1) * (MaxDim + 1)
                    THEN ToNat(p) ELSE 0

PackedFile(v, w, h, sel, m) ==
    v \o w \o h \o sel \o MaskBytes(m) \o Sample(2 * Pixels(w, h))

PaletteFile(w, h, m) ==
    U32(0) \o w \o h \o U32(1) \o SampleTable \o Sample(Pixels(w, h))
    \o MaskBytes(m) \o Sample(2 * Pixels(w, h))

Prefixes(f) == {SubSeq(f, 1, n) : n \in 0..Len(f)}

\* the prefixes of a palette file, without those that end deep inside the table
PalettePrefixes(f) ==
    {SubSeq(f, 1, n) : n \in {k \in 0..Len(f) :
        k <= 16 + TableProbe \/ k >= 16 + PaletteTableLen - TableProbe}}

Files ==
    UNION {Prefixes(PackedFile(U32(1), d[1], d[2], <<>>, m)) : d \in DimPairs, m \in FileMasks}
    \cup UNION {Prefixes(PackedFile(U32(0), d[1], d[2], U32(0), m)) : d \in DimPairs, m \in FileMasks}
    \cup UNION {PalettePrefixes(PaletteFile(d[1], d[2], m)) : d \in DimPairs, m \in FileMasks}
    \cup UNION {Prefixes(PackedFile(v, U32(2), U32(1), <<>>, M565)) :
                    v \in {U32(n) : n \in 2..MaxVersion} \cup {U32Max}}
    \cup UNION {Prefixes(PackedFile(U32(0), U32(2), U32(1), sel, M565)) :
                    sel \in {U32(n) : n \in 2..MaxPalette} \cup {U32Max}}

NoCall == [fn |-> "none", out |-> None]

Init ==
    /\ build \in {"debug", "release"}
    /\ buf \in Files
    /\ pos = 0
    /\ pc = "version"
    /\ rsb = RsbDefault
    /\ palette = None
    /\ size = U32(0)
    /\ masked_pixels = <<>>
    /\ err = ""
    /\ pixel = Bgra(U32(0))
    /\ bitmask = BitMaskDefault
    /\ call = NoCall
    /\ map = <<>>
    /\ chain = <<>>
    /\ mlog = <<>>

Next ==
    \/ ReadVersion
    \/ ReadWidth
    \/ ReadHeight
    \/ ReadPalette
    \/ ReadBitMask
    \/ ReadPaletteTable
    \/ ComputeSize
    \/ ReadPixel
    \/ PixelsDone
    \/ ReadBitMask2
    \/ ReadMaskedPixel
    \/ MaskedDone

Spec == Init /\ [][Next]_vars

(***************************************************************************)
(* Pixel, MaskedPixel (rsb.rs 202-311)                                     *)
(***************************************************************************)
\* Pixel::masked (line 266-274), on a u32.  `1u32 << channel` and
\* `<< shift` overflow when the count is 32 or more: a panic with overflow
\* checks, the count taken modulo 32 without.
Pixel_masked(value, channel, shift, bld) ==
    IF ~ IsZero(channel)
    THEN IF bld = "debug" /\ (AtLeast(channel, 32) \/ AtLeast(shift, 32))
         THEN Panic
         ELSE LET c == channel[1] % 32
                  s == shift[1] % 32
                  mask == Shl(Dec(Shl(U32(1), c)), s)
              IN  Some(Shr(BitAnd(value, mask), s))
    ELSE None

\* MaskedPixel::masked (line 303-310), on a u16: the counts overflow at 16
MaskedPixel_masked(value, channel, shift, bld) ==
    IF ~ IsZero(channel)
    THEN IF bld = "debug" /\ (AtLeast(channel, 16) \/ AtLeast(shift, 16))
         THEN Panic
         ELSE LET c == channel[1] % 16
                  s == shift[1] % 16
                  mask == Shl(Dec(Shl(U16(1), c)), s)
              IN  Some(Shr(BitAnd(value, mask), s))
    ELSE None

\* an accessor: the shift is the sum of the widths below the channel, added
\* before `masked` is called
Extract(p, channel, below, bld) ==
    LET shift == Sum(<<U32(0)>> \o below, bld)
    IN  IF shift.panic THEN Panic
        ELSE IF p.kind = "MaskedPixel"
             THEN MaskedPixel_masked(p.bits, channel, shift.val, bld)
             ELSE Pixel_masked(p.bits, channel, shift.val, bld)

\* Pixel::r with a palette index taken for a pixel without a red channel
Pixel_r_paletteNone(p, m, bld) ==
    CASE p.kind = "PaletteColorIndex" -> None
      [] p.kind = "Argb" -> Extract(p, m.r, <<m.a>>, bld)
      [] p.kind = "Bgra" -> Extract(p, m.r, <<m.b, m.g>>, bld)
      [] p.kind = "MaskedPixel" -> Extract(p, m.r, <<>>, bld)

\* Pixel::r (line 218-228), MaskedPixel::r (line 287-289)
Pixel_r(p, m, bld) ==
    CASE p.kind = "PaletteColorIndex" -> Panic
      [] p.kind = "Argb" -> Extract(p, m.r, <<m.a>>, bld)
      [] p.kind = "Bgra" -> Extract(p, m.r, <<m.b, m.g>>, bld)
      [] p.kind = "MaskedPixel" -> Extract(p, m.r, <<>>, bld)

\* Pixel::g (line 230-240), MaskedPixel::g (line 291-293)
Pixel_g(p, m, bld) ==
    CASE p.kind = "PaletteColorIndex" -> Panic
      [] p.kind = "Argb" -> Extract(p, m.g, <<m.a, m.r>>, bld)
      [] p.kind = "Bgra" -> Extract(p, m.g, <<m.b>>, bld)
      [] p.kind = "MaskedPixel" -> Extract(p, m.g, <<m.r>>, bld)

\* Pixel::b (line 242-252), MaskedPixel::b (line 295-297)
Pixel_b(p, m, bld) ==
    CASE p.kind = "PaletteColorIndex" -> Panic
      [] p.kind = "Argb" -> Extract(p, m.b, <<m.a, m.r, m.g>>, bld)
      [] p.kind = "Bgra" -> Extract(p, m.b, <<>>, bld)
      [] p.kind = "MaskedPixel" -> Extract(p, m.b, <<m.g, m.r>>, bld)

\* Pixel::a (line 254-264), MaskedPixel::a (line 299-301)
Pixel_a(p, m, bld) ==
    CASE p.kind = "PaletteColorIndex" -> Panic
      [] p.kind = "Argb" -> Extract(p, m.a, <<>>, bld)
      [] p.kind = "Bgra" -> Extract(p, m.a, <<m.b, m.g, m.r>>, bld)
      [] p.kind = "MaskedPixel" -> Extract(p, m.a, <<m.b, m.g, m.r>>, bld)

(***************************************************************************)
(* Calls of the accessors on pixels and masks built by a caller            *)
(***************************************************************************)
Widths == {U32(0), U32(5), U32(6), U32(16), U32(32)}

\* a zero-width red channel above widths whose sum overflows
MZeroRed == BitMask(U32(0), U32Max, U32(1), U32(0))

CallMasks ==
    {BitMask(r, g, b, a) : r \in Widths, g \in Widths, b \in Widths, a \in Widths}
    \cup {M4444, M8888, MWrap, MZeroRed}

\* rsb.rs 321-327 and 383-388, as the little-endian words read from them
MaskedWords == {<<70, 41>>, <<102, 41>>, <<69, 33>>, <<37, 33>>, <<5, 33>>, <<255, 255>>}
BgraWords == {<<8, 66, 0, 0>>, <<98, 16, 0, 0>>, <<163, 16, 0, 0>>, <<4, 33, 0, 0>>, U32Max}
ArgbWords == {<<120, 86, 52, 18>>, U32Max}

CallPixels ==
    {MaskedPixel(v) : v \in MaskedWords}
    \cup {Bgra(v) : v \in BgraWords}
    \cup {Argb(v) : v \in ArgbWords}
    \cup {PaletteColorIndex(7)}

InitPixel ==
    /\ build \in {"debug", "release"}
    /\ pixel \in CallPixels
    /\ bitmask \in CallMasks
    /\ call = NoCall
    /\ buf = <<>>
    /\ pos = 0
    /\ pc = "idle"
    /\ rsb = RsbDefault
    /\ palette = None
    /\ size = U32(0)
    /\ masked_pixels = <<>>
    /\ err = ""
    /\ map = <<>>
    /\ chain = <<>>
    /\ mlog = <<>>

CallR ==
    /\ pc = "idle"
    /\ call = NoCall
    /\ call' = [fn |-> "r", out |-> Pixel_r(pixel, bitmask, build)]
    /\ UNCHANGED <<build, rsbVars, pixel, bitmask, mapVars>>

CallG ==
    /\ pc = "idle"
    /\ call = NoCall
    /\ call' = [fn |-> "g", out |-> Pixel_g(pixel, bitmask, build)]
    /\ UNCHANGED <<build, rsbVars, pixel, bitmask, mapVars>>

CallB ==
    /\ pc = "idle"
    /\ call = NoCall
    /\ call' = [fn |-> "b", out |-> Pixel_b(pixel, bitmask, build)]
    /\ UNCHANGED <<build, rsbVars, pixel, bitmask, mapVars>>

CallA ==
    /\ pc = "idle"
    /\ call = NoCall
    /\ call' = [fn |-> "a", out |-> Pixel_a(pixel, bitmask, build)]
    /\ UNCHANGED <<build, rsbVars, pixel, bitmask, mapVars>>

CallBits ==
    /\ pc = "idle"
    /\ call = NoCall
    /\ call' = [fn |-> "bits", out |-> BitMask_bits(bitmask, build)]
    /\ UNCHANGED <<build, rsbVars, pixel, bitmask, mapVars>>

CallIsArgb ==
    /\ pc = "idle"
    /\ call = NoCall
    /\ call' = [fn |-> "is_argb", out |-> BitMask_is_argb(bitmask, build)]
    /\ UNCHANGED <<build, rsbVars, pixel, bitmask, mapVars>>

NextPixel ==
    \/ CallR
    \/ CallG
    \/ CallB
    \/ CallA
    \/ CallBits
    \/ CallIsArgb

SpecPixel == InitPixel /\ [][NextPixel]_vars

(***************************************************************************)
(* Properties of rsb::read, checked under Spec                             *)
(***************************************************************************)
\* the header fields as they lie in the file
InVersion == SubSeq(buf, 1, 4)
InWidth == SubSeq(buf, 5, 8)
InHeight == SubSeq(buf, 9, 12)
InSelector == SubSeq(buf, 13, 16)
InPalette1 == Len(buf) >= 16 /\ InVersion = U32(0) /\ InSelector = U32(1)
\* the mask that precedes the array of packed pixels
InPackedMask ==
    LET off == IF InVersion = U32(0) THEN 16 ELSE 12
    IN  BitMask(SubSeq(buf, off + 1, off + 4), SubSeq(buf, off + 5, off + 8),
                SubSeq(buf, off + 9, off + 12), SubSeq(buf, off + 13, off + 16))

\* C1: read succeeds only for version 1, or version 0 with selector 0 or 1;
\* a version >= 2 fails with the cursor just behind the version word and no
\* later field read; with version 0 a selector other than 0 and 1 fails with
\* the cursor just behind the selector and no mask, table or pixel read.
C1_RejectsUnsupported ==
    /\ pc = "ok" =>
          /\ Len(buf) >= 4
          /\ \/ InVersion = U32(1)
             \/ /\ Len(buf) >= 16
                /\ InVersion = U32(0)
                /\ InSelector \in {U32(0), U32(1)}
    /\ (Len(buf) >= 4 /\ AtLeast(InVersion, 2) /\ pc # "version") =>
          /\ pc = "err"
          /\ err = "UnsupportedVersion"
          /\ pos = 4
          /\ rsb.width = U32(0) /\ rsb.height = U32(0)
          /\ rsb.pixels = <<>>
    /\ (/\ Len(buf) >= 16
        /\ InVersion = U32(0)
        /\ InSelector \notin {U32(0), U32(1)}
        /\ pc \notin {"version", "width", "height", "palette"}) =>
          /\ pc = "err"
          /\ err = "UnsupportedPalette"
          /\ pos = 16
          /\ rsb.bitmask = BitMaskDefault
          /\ ~ rsb.palette_colors.some
          /\ rsb.pixels = <<>>

\* a buffer of only the 4 version bytes reported as of an unsupported version
C1_Witness == pc = "err" /\ err = "UnsupportedVersion" /\ Len(buf) = 4

\* spec section 8: version 1, width 2, height 1, mask {5,6,5,0}, two pixels
ScenarioFile == PackedFile(U32(1), U32(2), U32(1), <<>>, M565)

\* C2: after a successful read, palette is Some(selector) iff version 0,
\* palette_colors and masked_pixels are Some iff version 0 with selector 1;
\* the version-1 2x1 scenario gives 2 pixels, no masked pixels, no palette.
C2_OptionalFields ==
    pc = "ok" =>
        /\ rsb.palette.some <=> InVersion = U32(0)
        /\ rsb.palette.some => rsb.palette.val = InSelector
        /\ rsb.palette_colors.some <=> InPalette1
        /\ rsb.masked_pixels.some <=> InPalette1
        /\ buf = ScenarioFile =>
              /\ Len(rsb.pixels) = 2
              /\ ~ rsb.masked_pixels.some
              /\ ~ rsb.palette.some

C2_Witness == pc = "ok" /\ buf = ScenarioFile

\* C3: after a successful read pixels.len() is the product of the width and
\* the height of the file, masked_pixels has that length too, and
\* Rsb::size() returns it.
C3_LengthIsProduct ==
    pc = "ok" =>
        /\ LE(Len(rsb.pixels), 8) = FullMul(InWidth, InHeight)
        /\ rsb.masked_pixels.some => Len(rsb.masked_pixels.val) = Len(rsb.pixels)
        /\ LET n == Rsb_size(rsb, build)
           IN  n.some /\ n.val = LE(Len(rsb.pixels), 4)

\* C4: with version 0 and selector 1 the 1024-byte table is consumed and
\* palette_colors has 256 entries, entry i made of the table bytes
\* 4i .. 4i+3 as (B, G, R, A).
C4_PaletteTable ==
    rsb.palette_colors.some =>
        /\ pos >= 16 + PaletteTableLen
        /\ pc = "size" => pos = 16 + PaletteTableLen
        /\ Len(rsb.palette_colors.val) = 256
        /\ \A i \in 0..255 :
              rsb.palette_colors.val[i + 1] =
                  PaletteColor(buf[16 + 4 * i + 1], buf[16 + 4 * i + 2],
                               buf[16 + 4 * i + 3], buf[16 + 4 * i + 4])

\* C5: all pixels of an array have one variant: PaletteColorIndex, one byte
\* each, iff version 0 with selector 1; otherwise Argb when the mask before
\* the array is_argb() and Bgra when it is not.
C5_OneVariantPerArray ==
    /\ \A i \in 1..Len(rsb.pixels) :
          IF InPalette1
          THEN rsb.pixels[i].kind = "PaletteColorIndex"
          ELSE LET argb == BitMask_is_argb(InPackedMask, build)
               IN  /\ argb.some
                   /\ rsb.pixels[i].kind = IF argb.val THEN "Argb" ELSE "Bgra"
    /\ (pc = "pixels" /\ InPalette1) =>
          pos = 16 + PaletteTableLen + Len(rsb.pixels)

C5_Witness ==
    /\ pc = "ok"
    /\ Len(rsb.pixels) >= 2
    /\ rsb.pixels[1].kind = "Argb"

(***************************************************************************)
(* Properties of the accessors, checked under SpecPixel                    *)
(***************************************************************************)
\* the sum of 32-bit widths in 40 bits, where it cannot overflow
RECURSIVE WideSum(_)
WideSum(xs) ==
    IF xs = <<>> THEN LE(0, 5)
    ELSE SubSeq(AddCarry(xs[1] \o <<0>>, WideSum(Tail(xs)), 0), 1, 5)

TotalWidth(m) == WideSum(<<m.r, m.g, m.b, m.a>>)
TotalAtMost(m, n) == IsSmall(TotalWidth(m)) /\ ToNat(TotalWidth(m)) <= n

\* bits [lo, lo + w) of raw, as a value of the width of raw
FieldOf(raw, lo, w) ==
    [k \in 1..Len(raw) |->
        ByteOfBits(LAMBDA i : IF i < w THEN BitOf(raw, lo + i) ELSE 0, k)]

\* the channels in the order they are packed, from bit 0 upwards
Order(kind) ==
    CASE kind = "MaskedPixel" -> <<"r", "g", "b", "a">>
      [] kind = "Bgra" -> <<"b", "g", "r", "a">>
      [] kind = "Argb" -> <<"a", "r", "g", "b">>

\* the widths packed below channel ch
Below(kind, m, ch) ==
    LET o == Order(kind)
        n == CHOOSE j \in 1..4 : o[j] = ch
    IN  [j \in 1..(n - 1) |-> m[o[j]]]

\* a number of bits, cut off above any word size
Capped(x) == IF IsSmall(x) /\ ToNat(x) <= 64 THEN ToNat(x) ELSE 64

\* what a channel accessor has to return: None for a channel of width 0,
\* and otherwise the channel's bit field
ReturnsField(kind, m, ch, raw, out) ==
    IF IsZero(m[ch])
    THEN ~ out.some /\ ~ out.panic
    ELSE /\ out.some
         /\ out.val = FieldOf(raw, Capped(WideSum(Below(kind, m, ch))), Capped(m[ch] \o <<0>>))

Channels == {"r", "g", "b", "a"}

\* C6: bits() is the sum r+g+b+a of the four widths and is_argb() is true
\* exactly when that sum is 32, for all 32-bit widths.
C6_BitsIsSum ==
    /\ call.fn = "bits" =>
          call.out.some /\ call.out.val \o <<0>> = TotalWidth(bitmask)
    /\ call.fn = "is_argb" =>
          call.out.some /\ (call.out.val <=> TotalWidth(bitmask) = LE(32, 5))

\* rsb.rs 346-374: word, r, g, b
GoldenMasked ==
    {<<(<<70, 41>>), 6, 10, 5>>, <<(<<102, 41>>), 6, 11, 5>>, <<(<<69, 33>>), 5, 10, 4>>,
     <<(<<37, 33>>), 5, 9, 4>>, <<(<<5, 33>>), 5, 8, 4>>}

IsGolden(out, n, k) == IF n = 0 THEN ~ out.some /\ ~ out.panic
                       ELSE out.some /\ out.val = LE(n, k)

\* C7: for a MaskedPixel and a mask of total width <= 16 the accessors
\* return the consecutive bit fields R, G, B, A from bit 0; with {5,6,5,0}
\* the five test words give the values of the test.
C7_MaskedPixelFields ==
    (pixel.kind = "MaskedPixel" /\ call.fn \in Channels) =>
        /\ TotalAtMost(bitmask, 16) =>
              ReturnsField("MaskedPixel", bitmask, call.fn, pixel.bits, call.out)
        /\ \A v \in GoldenMasked :
              (pixel.bits = v[1] /\ bitmask = M565) =>
                  IsGolden(call.out,
                           CASE call.fn = "r" -> v[2] [] call.fn = "g" -> v[3]
                             [] call.fn = "b" -> v[4] [] call.fn = "a" -> 0, 2)

\* rsb.rs 406-428: word, b, g, r
GoldenBgra ==
    {<<(<<8, 66, 0, 0>>), 8, 16, 8>>, <<(<<98, 16, 0, 0>>), 2, 3, 2>>,
     <<(<<163, 16, 0, 0>>), 3, 5, 2>>, <<(<<4, 33, 0, 0>>), 4, 8, 4>>}

\* C8: for a Bgra pixel and a mask of total width <= 32 the accessors return
\* the consecutive bit fields B, G, R, A from bit 0; with {5,6,5,0} the four
\* test words give the values of the test.
C8_BgraFields ==
    (pixel.kind = "Bgra" /\ call.fn \in Channels) =>
        /\ TotalAtMost(bitmask, 32) =>
              ReturnsField("Bgra", bitmask, call.fn, pixel.bits, call.out)
        /\ \A v \in GoldenBgra :
              (pixel.bits = v[1] /\ bitmask = M565) =>
                  IsGolden(call.out,
                           CASE call.fn = "b" -> v[2] [] call.fn = "g" -> v[3]
                             [] call.fn = "r" -> v[4] [] call.fn = "a" -> 0, 4)

\* C9: for an Argb pixel and a mask of total width 32 the accessors return
\* the consecutive bit fields A, R, G, B from bit 0; a Bgra pixel is never
\* read by that scheme.
C9_ArgbFields ==
    (call.fn \in Channels /\ TotalWidth(bitmask) = LE(32, 5)) =>
        /\ pixel.kind = "Argb" =>
              ReturnsField("Argb", bitmask, call.fn, pixel.bits, call.out)
        /\ pixel.kind = "Bgra" =>
              ReturnsField("Bgra", bitmask, call.fn, pixel.bits, call.out)

\* C10: for an Argb or Bgra Pixel or a MaskedPixel and any mask, an accessor
\* returns None exactly when the width of its channel is 0 and otherwise
\* Some of the channel's bits.
C10_PresentIffWidth ==
    (pixel.kind \in {"Argb", "Bgra", "MaskedPixel"} /\ call.fn \in Channels) =>
        ReturnsField(pixel.kind, bitmask, call.fn, pixel.bits, call.out)

(***************************************************************************)
(* Part 2: src/src/map.rs.                                                 *)
(*                                                                         *)
(* Every `read` function of map.rs is a sequence of reads from one cursor, *)
(* each followed by `?`.  A reader is written here as the list of its      *)
(* reads (a node); Read runs a node on a buffer from a position and gives  *)
(* the position reached and the value built, or the error: its root cause  *)
(* and the labels that `.context(..)` put around it, outermost first.      *)
(* Floats are kept as their four bytes.  A String is kept as its UTF-8     *)
(* bytes, which is what a Rust String holds.                               *)
(***************************************************************************)

\* b"BeginMapv2.1", b"EndMap" and b"Version"
MAGIC == <<66, 101, 103, 105, 110, 77, 97, 112, 118, 50, 46, 49>>
END == <<69, 110, 100, 77, 97, 112>>
VersionName == <<86, 101, 114, 115, 105, 111, 110>>

\* a context label; the index of the element for the labels that carry one
Lbl(s) == <<s, -1>>
LblAt(s, i) == <<s, i>>

\* Result<T>: Ok(value) with the cursor after it, or Err with the cursor
\* after the last read that succeeded.  log is the record of the reads,
\* and loops the indices of the `for` loops the error came out of.
Ok(p, v, lg) == [ok |-> TRUE, pos |-> p, val |-> v, log |-> lg]
Fail(p, root, lg) ==
    [ok |-> FALSE, pos |-> p, chain |-> <<>>, root |-> root, log |-> lg,
     loops |-> <<>>]

\* anyhow's .context(label) / .with_context(..)
Context(r, label) == IF r.ok THEN r ELSE [r EXCEPT !.chain = <<label>> \o @]

\* Read::read_exact of n bytes at p
read_exact(b, p, n, lg) ==
    IF p + n <= Len(b) THEN Ok(p + n, SubSeq(b, p + 1, p + n), lg)
    ELSE Fail(p, "UnexpectedEof", lg)

\* the width of the UTF-8 sequence that starts with byte c, 0 if none does
Utf8Width(c) ==
    IF c < 128 THEN 1
    ELSE IF c \in 194..223 THEN 2
    ELSE IF c \in 224..239 THEN 3
    ELSE IF c \in 240..244 THEN 4
    ELSE 0

\* core::str::from_utf8 accepts s
RECURSIVE Utf8Valid(_)
Utf8Valid(s) ==
    IF s = <<>> THEN TRUE
    ELSE LET w == Utf8Width(s[1])
         IN  /\ w > 0
             /\ Len(s) >= w
             /\ \A i \in 2..w : s[i] \in 128..191
             /\ (s[1] = 224 => s[2] >= 160)
             /\ (s[1] = 237 => s[2] <= 159)
             /\ (s[1] = 240 => s[2] >= 144)
             /\ (s[1] = 244 => s[2] <= 143)
             /\ Utf8Valid(SubSeq(s, w + 1, Len(s)))

\* String::from_utf8(bytes)
String_from_utf8(s) == IF Utf8Valid(s) THEN Some(s) ELSE None

\* the UTF-8 encoding of the char with code point c < 256
EncodeChar(c) == IF c < 128 THEN <<c>> ELSE <<192 + (c \div 64), 128 + (c % 64)>>

\* s.iter().map(|&c| c as char).collect::<String>()
RECURSIVE latin1_to_utf8(_)
latin1_to_utf8(s) ==
    IF s = <<>> THEN <<>> ELSE EncodeChar(s[1]) \o latin1_to_utf8(Tail(s))

\* str::chars(): the code points of a String
RECURSIVE Chars(_)
Chars(s) ==
    IF s = <<>> THEN <<>>
    ELSE LET w == Utf8Width(s[1])
             c == CASE w = 1 -> s[1]
                    [] w = 2 -> (s[1] - 192) * 64 + (s[2] - 128)
                    [] w = 3 -> (s[1] - 224) * 4096 + (s[2] - 128) * 64
                                + (s[3] - 128)
                    [] OTHER -> (s[1] - 240) * 262144 + (s[2] - 128) * 4096
                                + (s[3] - 128) * 64 + (s[4] - 128)
         IN  <<c>> \o Chars(SubSeq(s, w + 1, Len(s)))

\* line 1543-1553 without the truncate of line 1551
read_cstring_keepLast(b, p, lg) ==
    LET len == Context(read_exact(b, p, 4, lg), Lbl("could not read length"))
    IN  IF ~ len.ok THEN len
        ELSE IF ~ AtLeast(len.val, 1) THEN Fail(len.pos, "empty string", lg)
        ELSE IF ~ IsSmall(len.val)
             THEN Context(Fail(len.pos, "UnexpectedEof", lg),
                          Lbl("could not read {len} bytes"))
        ELSE Context(read_exact(b, len.pos, ToNat(len.val), lg),
                     Lbl("could not read {len} bytes"))

\* line 1543-1553
read_cstring(b, p, lg) ==
    LET len == Context(read_exact(b, p, 4, lg), Lbl("could not read length"))
    IN  IF ~ len.ok THEN len
        ELSE IF ~ AtLeast(len.val, 1) THEN Fail(len.pos, "empty string", lg)
        ELSE IF ~ IsSmall(len.val)
             THEN Context(Fail(len.pos, "UnexpectedEof", lg),
                          Lbl("could not read {len} bytes"))
        ELSE LET n == ToNat(len.val)
                 bytes == Context(read_exact(b, len.pos, n, lg),
                                  Lbl("could not read {len} bytes"))
             IN  IF ~ bytes.ok THEN bytes
                 ELSE Ok(bytes.pos, SubSeq(bytes.val, 1, n - 1), lg)

(***************************************************************************)
(* Readers as data.  A body node is a function body: its `let` statements  *)
(* are run in order, each binding the names of its pattern (one name, or   *)
(* the names of a tuple pattern) to the value read.  The value of the body *)
(* is the struct made of the locals listed in keep, or the tuple of the    *)
(* locals listed in out.  i is the index of the enclosing `for` loop and   *)
(* env the locals already bound in the enclosing function body.            *)
(***************************************************************************)
read_u8 == [t |-> "u8"]
read_u16 == [t |-> "word", n |-> 2]
read_u32 == [t |-> "word", n |-> 4]
read_f32 == [t |-> "word", n |-> 4]
read_bool == [t |-> "bool"]
cstring == [t |-> "cstring"]
Ctx(label, node) == [t |-> "ctx", label |-> label, of |-> node]
ICtx(label, node) == [t |-> "ictx", label |-> label, of |-> node]
Latin1(node) == [t |-> "latin1", of |-> node]
Utf8(node) == [t |-> "utf8", of |-> node]
\* `let name = node?;` and `let (a, b) = node?;`
Let(name, node) == <<<<name>>, node>>
Let2(a, b, node) == <<<<a, b>>, node>>
Let3(a, b, c, node) == <<<<a, b, c>>, node>>
\* a function body or block: it ends with `Self { keep.. }` (every local
\* being a field when keep is not given), with the tuple `(out..)` or with
\* the local `out`
StructOf(fields, keep) ==
    [t |-> "body", fields |-> fields, as |-> "struct", keep |-> keep,
     out |-> <<>>]
Struct(fields) ==
    StructOf(fields, UNION {{fields[k][1][j] : j \in 1..Len(fields[k][1])} :
                            k \in 1..Len(fields)})
TupleOf(fields, out) ==
    [t |-> "body", fields |-> fields, as |-> "tuple", keep |-> {}, out |-> out]
Block(fields, out) ==
    [t |-> "body", fields |-> fields, as |-> "local", keep |-> {},
     out |-> <<out>>]
\* the enum variant `tag { .. }` made of the struct that node builds
Variant(tag, node) == [t |-> "variant", tag |-> tag, of |-> node]
\* `let n = count; for i in 0..n { push(elem) }`
List(what, count, elem) ==
    [t |-> "list", what |-> what, count |-> count, of |-> elem]
\* `for i in 0..n { push(elem) }` for a local n read earlier
Repeat(what, n, elem) == [t |-> "repeat", what |-> what, n |-> n, of |-> elem]
\* `for (i, x) in array.iter_mut().enumerate() { *x = elem }`, n elements
Array(n, elem) == [t |-> "array", n |-> n, of |-> elem]
\* `if cond { Some(node) } else { None }` and `if cond { a } else { b }`
Opt(cond, node) == [t |-> "opt", cond |-> cond, of |-> node]
If(cond, a, b) == [t |-> "if", cond |-> cond, then |-> a, else |-> b]
Eq(local, v) == [is |-> "eq", local |-> local, val |-> v]
SomeEq(local, v) == [is |-> "some_eq", local |-> local, val |-> v]
Positive(local) == [is |-> "positive", local |-> local, val |-> 0]
\* `match local { arm => node, .. }`
Match(local, arms) == [t |-> "match", on |-> local, arms |-> arms]
\* `String::from_utf8(local)?`
FromUtf8(local) == [t |-> "from_utf8", local |-> local]
\* a reader written out below
Call(f) == [t |-> "call", f |-> f]
\* node, with its extent in the file recorded under tag
Mark(tag, node) == [t |-> "mark", tag |-> tag, of |-> node]

RECURSIVE Read(_, _, _, _, _, _)
RECURSIVE ReadFields(_, _, _, _, _, _)
RECURSIVE ReadItems(_, _, _, _, _, _, _, _)
RECURSIVE CallRead(_, _, _, _, _, _)

\* the condition of an `if` on locals, where is_some_and is is_some
Holds_anySome(cond, env) ==
    CASE cond.is = "eq" -> env[cond.local] = cond.val
      [] cond.is = "some_eq" -> env[cond.local].some
      [] cond.is = "positive" -> ~ IsZero(env[cond.local])

\* the condition of an `if` on locals
Holds(cond, env) ==
    CASE cond.is = "eq" -> env[cond.local] = cond.val
      [] cond.is = "some_eq" ->
            env[cond.local].some /\ env[cond.local].val = cond.val
      [] cond.is = "positive" -> ~ IsZero(env[cond.local])

\* the locals that the pattern pat binds when it is matched with v
Bind(pat, v) ==
    IF Len(pat) = 1 THEN pat[1] :> v
    ELSE [name \in {pat[k] : k \in 1..Len(pat)} |->
            v[CHOOSE k \in 1..Len(pat) : pat[k] = name]]

ReadFields(fields, b, p, i, env, lg) ==
    IF fields = <<>> THEN Ok(p, env, lg)
    ELSE LET r == Read(Head(fields)[2], b, p, i, env, lg)
         IN  IF ~ r.ok THEN r
             ELSE ReadFields(Tail(fields), b, r.pos, i,
                             Bind(Head(fields)[1], r.val) @@ env, r.log)

\* the loop with a body that does not push its first element
ReadItems_skipFirst(node, b, p, i, n, acc, env, lg) ==
    IF ~ NatLess(i, n) THEN Ok(p, acc, lg)
    ELSE LET r == Read(node, b, p, i, env, lg)
         IN  IF ~ r.ok THEN r
             ELSE ReadItems(node, b, r.pos, i + 1, n,
                            IF i = 0 THEN acc ELSE Append(acc, r.val), env,
                            r.log)

ReadItems(node, b, p, i, n, acc, env, lg) ==
    IF ~ NatLess(i, n) THEN Ok(p, acc, lg)
    ELSE LET r == Read(node, b, p, i, env, lg)
         IN  IF ~ r.ok THEN [r EXCEPT !.loops = <<i>> \o @]
             ELSE ReadItems(node, b, r.pos, i + 1, n, Append(acc, r.val), env,
                            r.log)

\* the record of a list that was read: the count in the file, the elements
ListRead(what, count, items) ==
    [k |-> "list", what |-> what, count |-> count, len |-> Len(items)]

\* the record of a String that was made of the bytes read
StringMade(bytes, s) == [k |-> "string", bytes |-> bytes, str |-> s]

Read(node, b, p, i, env, lg) ==
    CASE node.t = "u8" ->
            LET r == read_exact(b, p, 1, lg)
            IN  IF r.ok THEN [r EXCEPT !.val = @[1]] ELSE r
      [] node.t = "word" -> read_exact(b, p, node.n, lg)
      [] node.t = "bool" ->
            LET r == Context(Read(read_u8, b, p, i, env, lg),
                             Lbl("could not read bool"))
            IN  IF r.ok THEN [r EXCEPT !.val = (@ = 1)] ELSE r
      [] node.t = "cstring" -> read_cstring(b, p, lg)
      [] node.t = "ctx" ->
            Context(Read(node.of, b, p, i, env, lg), Lbl(node.label))
      [] node.t = "ictx" ->
            Context(Read(node.of, b, p, i, env, lg), LblAt(node.label, i))
      [] node.t = "latin1" ->
            LET r == Read(node.of, b, p, i, env, lg)
                s == latin1_to_utf8(r.val)
            IN  IF ~ r.ok THEN r
                ELSE Ok(r.pos, s, Append(r.log, StringMade(r.val, Some(s))))
      [] node.t = "utf8" ->
            LET r == Read(node.of, b, p, i, env, lg)
                s == String_from_utf8(r.val)
                l == Append(r.log, StringMade(r.val, s))
            IN  IF ~ r.ok THEN r
                ELSE IF s.some THEN Ok(r.pos, s.val, l)
                ELSE Fail(r.pos, "FromUtf8Error", l)
      [] node.t = "from_utf8" ->
            LET s == String_from_utf8(env[node.local])
                l == Append(lg, StringMade(env[node.local], s))
            IN  IF s.some THEN Ok(p, s.val, l) ELSE Fail(p, "FromUtf8Error", l)
      [] node.t = "body" ->
            LET r == ReadFields(node.fields, b, p, i, env, lg)
            IN  IF ~ r.ok THEN r
                ELSE [r EXCEPT !.val =
                        CASE node.as = "struct" -> [f \in node.keep |-> @[f]]
                          [] node.as = "tuple" ->
                                [k \in 1..Len(node.out) |-> @[node.out[k]]]
                          [] node.as = "local" -> @[node.out[1]]]
      [] node.t = "variant" ->
            LET r == Read(node.of, b, p, i, env, lg)
            IN  IF ~ r.ok THEN r
                ELSE [r EXCEPT !.val = ("variant" :> node.tag) @@ @]
      [] node.t = "list" ->
            LET n == Read(node.count, b, p, i, env, lg)
                r == ReadItems(node.of, b, n.pos, 0, n.val, <<>>, env, n.log)
            IN  IF ~ n.ok THEN n
                ELSE IF ~ r.ok THEN r
                ELSE [r EXCEPT !.log =
                        Append(@, ListRead(node.what, n.val, r.val))]
      [] node.t = "repeat" ->
            LET r == ReadItems(node.of, b, p, 0, env[node.n], <<>>, env, lg)
            IN  IF ~ r.ok THEN r
                ELSE [r EXCEPT !.log =
                        Append(@, ListRead(node.what, env[node.n], r.val))]
      [] node.t = "array" ->
            ReadItems(node.of, b, p, 0, U32(node.n), <<>>, env, lg)
      [] node.t = "opt" ->
            IF Holds(node.cond, env)
            THEN LET r == Read(node.of, b, p, i, env, lg)
                 IN  IF r.ok THEN [r EXCEPT !.val = Some(@)] ELSE r
            ELSE Ok(p, None, lg)
      [] node.t = "if" ->
            IF Holds(node.cond, env) THEN Read(node.then, b, p, i, env, lg)
            ELSE Read(node.else, b, p, i, env, lg)
      [] node.t = "match" ->
            Read(node.arms[env[node.on]], b, p, i, env, lg)
      [] node.t = "mark" ->
            LET r == Read(node.of, b, p, i, env, lg)
            IN  IF ~ r.ok THEN r
                ELSE [r EXCEPT !.log =
                        Append(@, [k |-> "span", tag |-> node.tag,
                                   from |-> p, to |-> r.pos])]
      [] node.t = "call" -> CallRead(node.f, b, p, i, env, lg)

\* the record of a 32-bit word at offset p that was read and dropped
Dropped(tag, p) == [k |-> "span", tag |-> tag, from |-> p, to |-> p + 4]

\* the String made of a name read by a section header, and the record of it
NameOf(bytes, lg) ==
    Append(lg, StringMade(bytes, Some(latin1_to_utf8(bytes))))

\* line 1515-1529 without the read of the version number of line 1524
section_header_short_noVersion(b, p, lg) ==
    LET id == Context(read_exact(b, p, 4, lg), Lbl("failed to read material id"))
        name == Context(read_cstring(b, id.pos, lg), Lbl("section header name"))
        name2 == Context(read_cstring(b, name.pos, lg),
                         Lbl("texture short name"))
    IN  IF ~ id.ok THEN id
        ELSE IF ~ name.ok THEN name
        ELSE IF name.val = VersionName
        THEN IF ~ name2.ok THEN name2
             ELSE Ok(name2.pos, <<id.val, latin1_to_utf8(name2.val)>>,
                     NameOf(name2.val, lg))
        ELSE Ok(name.pos, <<id.val, latin1_to_utf8(name.val)>>,
                NameOf(name.val, lg))

\* line 1515-1529: (id, name), the name after `Version` when there is one
section_header_short(b, p, lg) ==
    LET id == Context(read_exact(b, p, 4, lg), Lbl("failed to read material id"))
        name == Context(read_cstring(b, id.pos, lg), Lbl("section header name"))
        version == Context(read_exact(b, name.pos, 4, lg), Lbl("version number"))
        name2 == Context(read_cstring(b, version.pos, lg),
                         Lbl("texture short name"))
    IN  IF ~ id.ok THEN id
        ELSE IF ~ name.ok THEN name
        ELSE IF name.val = VersionName
        THEN IF ~ version.ok THEN version
             ELSE IF ~ name2.ok THEN name2
             ELSE Ok(name2.pos, <<id.val, latin1_to_utf8(name2.val)>>,
                     NameOf(name2.val,
                            Append(lg, Dropped("version", name.pos))))
        ELSE Ok(name.pos, <<id.val, latin1_to_utf8(name.val)>>,
                NameOf(name.val, lg))

\* line 1508-1512 without the read of the section size
section_header_noSize(b, p, lg) == section_header_short(b, p, lg)

\* line 1508-1512 where a section of size 0 has no id and no name
section_header_sized(b, p, lg) ==
    LET size_ == Context(read_exact(b, p, 4, lg),
                         Lbl("failed to read section size"))
    IN  IF ~ size_.ok THEN size_
        ELSE IF IsZero(size_.val)
        THEN Context(Fail(size_.pos, "UnexpectedEof", lg),
                     Lbl("failed to read material id"))
        ELSE section_header_short(b, size_.pos,
                                  Append(lg, Dropped("size", p)))

\* line 1508-1512: the section size is read and dropped
section_header(b, p, lg) ==
    LET size_ == Context(read_exact(b, p, 4, lg),
                         Lbl("failed to read section size"))
    IN  IF ~ size_.ok THEN size_
        ELSE section_header_short(b, size_.pos, Append(lg, Dropped("size", p)))

\* line 81: the string read is the magic
IsMagic_prefix(magic) ==
    Len(magic) >= Len(MAGIC) /\ SubSeq(magic, 1, Len(MAGIC)) = MAGIC

IsMagic(magic) == magic = MAGIC

\* line 79-89
MapHeader_read(b, p, lg) ==
    LET magic == Context(read_cstring(b, p, lg), Lbl("missing magic"))
        timestamp == Context(read_exact(b, magic.pos, 4, lg),
                             Lbl("failed to read file creation timestamp"))
    IN  IF ~ magic.ok THEN magic
        ELSE IF ~ IsMagic(magic.val)
        THEN [Fail(magic.pos, "incorrect magic", lg) EXCEPT !.log =
                Append(@, [k |-> "magic", bytes |-> magic.val])]
        ELSE IF ~ timestamp.ok THEN timestamp
        ELSE Ok(timestamp.pos, [timestamp |-> timestamp.val], lg)

\* the match of line 181-186 with a further arm `2 => Self::Clamp`
AddressModeOf_twoIsClamp(m) ==
    IF m = U32(0) THEN Some("Opaque")
    ELSE IF m = U32(1) THEN Some("Wrap")
    ELSE IF m = U32(2) \/ m = U32(3) THEN Some("Clamp")
    ELSE None

\* line 181-186
AddressModeOf(m) ==
    IF m = U32(0) THEN Some("Opaque")
    ELSE IF m = U32(1) THEN Some("Wrap")
    ELSE IF m = U32(3) THEN Some("Clamp")
    ELSE None

\* line 178-187
TextureAddressMode_read(b, p, lg) ==
    LET address_mode == Context(read_exact(b, p, 4, lg),
                                Lbl("texture address mode"))
        mode == AddressModeOf(address_mode.val)
        seen == Append(lg, [k |-> "span", tag |-> "address_mode",
                            from |-> p, to |-> address_mode.pos])
    IN  IF ~ address_mode.ok THEN address_mode
        ELSE IF mode.some THEN Ok(address_mode.pos, mode.val, seen)
        ELSE Fail(address_mode.pos, "unknown texture mode address value", seen)

\* line 1559-1563
read_f32_xy ==
    TupleOf(<<Let("x", Ctx("x", read_f32)), Let("y", Ctx("y", read_f32))>>,
            <<"x", "y">>)

\* line 1565-1569
read_f32_xyz ==
    TupleOf(<<Let2("x", "y", read_f32_xy), Let("z", Ctx("z", read_f32))>>,
            <<"x", "y", "z">>)

\* line 200-206
Color4f_read ==
    Struct(<<Let("r", Ctx("red", read_f32)),
             Let("g", Ctx("green", read_f32)),
             Let("b", Ctx("blue", read_f32)),
             Let("a", Ctx("alpha", read_f32))>>)

\* line 136-167
Material_read ==
    Struct(<<Let2("id", "name",
                  Ctx("material section header", Call("section_header"))),
             Let("filename", Latin1(Ctx("texture filename", cstring))),
             Let("opacity", Ctx("opacity", read_f32)),
             Let("emissive_strength", Ctx("emissive strength", read_u32)),
             Let("address_mode", Call("TextureAddressMode::read")),
             Let("ambient", Ctx("ambient", Color4f_read)),
             Let("diffuse", Ctx("diffuse", Color4f_read)),
             Let("specular", Ctx("specular", Color4f_read)),
             Let("specular_level", Ctx("specular level", read_f32)),
             Let("two_sided", Ctx("two sided", read_bool))>>)

\* line 100-116
Materials_read ==
    StructOf(<<Let2("id", "_material_list",
                    Ctx("material list section header", Call("section_header"))),
               Let("materials",
                   List("materials",
                        Ctx("missing number of materials", read_u32),
                        ICtx("material section header {i}", Material_read)))>>,
             {"id", "materials"})

\* line 307-310
Vertex_read == Struct(<<Let3("x", "y", "z", read_f32_xyz)>>)

\* line 392-396
FaceNormal_read ==
    Struct(<<Let3("x", "y", "z", read_f32_xyz),
             Let("distance_origin_to_face",
                 Ctx("distance origin to face", read_f32))>>)

\* line 354-360 and 365-371: one (p1, p2, p3) of a face list
FaceIndex_read ==
    TupleOf(<<Let("p1", ICtx("p1 of face index {i}", read_u16)),
              Let("p2", ICtx("p2 of face index {i}", read_u16)),
              Let("p3", ICtx("p3 of face index {i}", read_u16))>>,
            <<"p1", "p2", "p3">>)

\* line 342-379
Faces_read ==
    StructOf(<<Let("n", Ctx("face count", read_u32)),
               Let("normals",
                   Repeat("face normals", "n",
                          ICtx("face normal {i}", FaceNormal_read))),
               Let("face_indices",
                   Repeat("face indices", "n", FaceIndex_read)),
               Let("texture_indices",
                   Repeat("texture indices", "n", FaceIndex_read))>>,
             {"normals", "face_indices", "texture_indices"})

\* line 445-448
NormalCoord_read == Struct(<<Let3("x", "y", "z", read_f32_xyz)>>)

\* line 458-462
UvCoord_read ==
    Struct(<<Let("u", Ctx("u", read_f32)), Let("v", Ctx("v", read_f32))>>)

\* line 408-434
TextureVertices_read ==
    StructOf(<<Let("n", Ctx("vertices count", read_u32)),
               Let("normals",
                   Repeat("texture normals", "n",
                          ICtx("normal coordinate {i} of {n}",
                               NormalCoord_read))),
               Let("uv_coords",
                   Repeat("uv coords", "n",
                          ICtx("UV texture coordinate {i} of {n}",
                               UvCoord_read))),
               Let("face_colors",
                   Repeat("face colors", "n",
                          ICtx("face color {i} of {n}", Color4f_read)))>>,
             {"normals", "uv_coords", "face_colors"})

\* line 322-331
ObjectData_read ==
    Struct(<<Let("mn", Ctx("MN", read_u32)),
             Let("faces", Faces_read),
             Let("texture_vertices", TextureVertices_read)>>)

\* line 472-488
Collisions_read ==
    Struct(<<Let("vertices",
                 List("collision vertices",
                      Ctx("collision vertices count", read_u32),
                      ICtx("collision vertex {i}", Vertex_read))),
             Let("faces",
                 List("collision faces",
                      Ctx("collision faces count", read_u32),
                      ICtx("collision face normal {i}", FaceNormal_read)))>>)

\* line 500-517
Tag_read ==
    Struct(<<Let("coord1",
                 TupleOf(<<Let("p11", Ctx("coord1 p1", read_u16)),
                           Let("p21", Ctx("coord1 p2", read_u16)),
                           Let("p31", Ctx("coord1 p3", read_u16))>>,
                         <<"p11", "p21", "p31">>)),
             Let("face_index_1", Ctx("face index 1", read_u16)),
             Let("coord2",
                 TupleOf(<<Let("p12", Ctx("coord2 p1", read_u16)),
                           Let("p22", Ctx("coord2 p2", read_u16)),
                           Let("p32", Ctx("coord2 p3", read_u16))>>,
                         <<"p12", "p22", "p32">>)),
             Let("face_index_2", Ctx("face index 2", read_u16))>>)

\* line 529-543: the text is made a String after the last read
EIndices_read ==
    Struct(<<Let("text", Ctx("EIndex text", cstring)),
             Let("mn", Ctx("EIndex MN", read_u32)),
             Let("indices",
                 List("indices", Ctx("EIndex indices count", read_u32),
                      read_u16)),
             Let("text", FromUtf8("text"))>>)

\* line 248-296
Object_read ==
    Struct(<<Let2("id", "name", Ctx("section header", Call("section_header"))),
             Let2("object_id", "object_name",
                  Ctx("object section header", Call("section_header"))),
             Let("vertices",
                 List("vertices", Ctx("vertex count", read_u32), Vertex_read)),
             Let("object_datas",
                 List("object data", Ctx("objects data count", read_u32),
                      ObjectData_read)),
             Let("collisions", Collisions_read),
             Let("tags",
                 List("tags", Ctx("object tag count", read_u32), Tag_read)),
             Let("ind",
                 List("indexed names", Ctx("FF count", read_u32),
                      ICtx("EIndices {i}", EIndices_read)))>>)

\* line 216-230
Geometries_read ==
    StructOf(<<Let2("id", "_material_list",
                    Ctx("geometry list section header",
                        Call("section_header"))),
               Let("objects",
                   List("geometry objects",
                        Ctx("missing number of objects", read_u32),
                        Object_read))>>,
             {"id", "objects"})

\* line 580-597
Portal_read ==
    Struct(<<Let2("id", "name", Ctx("portal", Call("section_header"))),
             Let("coordinates",
                 List("portal coordinates", Ctx("coordinates count", read_u32),
                      ICtx("coordinate vertex {i}", Vertex_read))),
             Let("room", Ctx("room", read_u32)),
             Let("opposite_room", Ctx("opposite room", read_u32))>>)

\* line 554-567
Portals_read ==
    Struct(<<Let2("id", "name", Ctx("portals", Call("section_header"))),
             Let("portals",
                 List("portals", Ctx("portal count", read_u32),
                      ICtx("portal {i}", Portal_read)))>>)

\* line 611-615: the count is kept, no light is read
Lights_read ==
    Struct(<<Let2("id", "name", Ctx("lights", Call("section_header"))),
             Let("light_count", Ctx("light count", read_u32))>>)

\* line 749-752
Vec3f_read == Struct(<<Let3("x", "y", "z", read_f32_xyz)>>)

\* line 766-770
Vec6f_read ==
    Struct(<<Let3("x1", "y1", "z1", read_f32_xyz),
             Let3("x2", "y2", "z2", read_f32_xyz)>>)

\* line 788-793
Vec8f_read ==
    Struct(<<Let3("x1", "y1", "z1", read_f32_xyz),
             Let3("x2", "y2", "z2", read_f32_xyz),
             Let2("x3", "y3", read_f32_xy)>>)

\* line 731-738
TransformationMatrix_read ==
    Struct(<<Let("x_axis", Ctx("transformation matrix x-axis", Vec3f_read)),
             Let("y_axis", Ctx("transformation matrix y-axis", Vec3f_read)),
             Let("z_axis", Ctx("transformation matrix z-axis", Vec3f_read)),
             Let("position",
                 Ctx("transformation matrix position", Vec3f_read))>>)

\* line 860-883
KindDynamicParamStruct_read ==
    Struct(<<Let("name",
                 Latin1(Ctx("dynamic object kind struct name", cstring))),
             Let("unknown1",
                 Array(9, ICtx("dynamic object kind struct unknown1 {i}",
                               read_f32))),
             Let("unknown2",
                 Array(2, ICtx("dynamic object kind struct unknown2 {i}",
                               read_u32)))>>)

\* line 817-823: the branch of count > 0
KindDynamicParams_Struct ==
    Variant("Struct",
        Struct(<<Let("structs",
                     Repeat("param structs", "count",
                            ICtx("dynamic object kind struct {i} of {count}",
                                 KindDynamicParamStruct_read)))>>))

\* line 825-846: the branch of count = 0, which reads a count of its own
KindDynamicParams_Flat ==
    Variant("Flat",
        Struct(<<Let("names",
                     List("flat names",
                          Ctx("dynamic object flat count", read_u32),
                          Latin1(ICtx("dynamic object kind flat name {i} of {count}",
                                      cstring)))),
                 Let("unknown",
                     Array(4, ICtx("dynamic object kind flat unknown {i}",
                                   read_f32)))>>))

\* line 814-848 without the branch of count = 0: an empty Struct instead
KindDynamicParams_read_structOnly ==
    Block(<<Let("count", Ctx("dynamic object kind count", read_u32)),
            Let("params", KindDynamicParams_Struct)>>,
          "params")

\* line 814-848
KindDynamicParams_read ==
    Block(<<Let("count", Ctx("dynamic object kind count", read_u32)),
            Let("params", If(Positive("count"), KindDynamicParams_Struct,
                             KindDynamicParams_Flat))>>,
          "params")

\* line 904-945 without the read of line 931-932, the seventh string
\* after the sounds
DynamicObjectKindCommon_read_sixAfterSounds ==
    Struct(<<Let("tm", Ctx("transformation matrix", TransformationMatrix_read)),
             Let("name", Latin1(Ctx("name", cstring))),
             Let("unknown1", Ctx("unknown1", read_u32)),
             Let("sounds", Array(4, Latin1(ICtx("sound {i}", cstring)))),
             Let("collision_type_2d", Latin1(Ctx("2D collision type", cstring))),
             Let("collision_type_3d", Latin1(Ctx("3D collision type", cstring))),
             Let("destruction_action",
                 Latin1(Ctx("destruction action", cstring))),
             Let("destruction_category",
                 Latin1(Ctx("destruction category", cstring))),
             Let("penetration_type", Latin1(Ctx("penetration type", cstring))),
             Let("name2", Latin1(Ctx("name2", cstring)))>>)

\* line 904-945
DynamicObjectKindCommon_read ==
    Struct(<<Let("tm", Ctx("transformation matrix", TransformationMatrix_read)),
             Let("name", Latin1(Ctx("name", cstring))),
             Let("unknown1", Ctx("unknown1", read_u32)),
             Let("sounds", Array(4, Latin1(ICtx("sound {i}", cstring)))),
             Let("collision_type_2d", Latin1(Ctx("2D collision type", cstring))),
             Let("collision_type_3d", Latin1(Ctx("3D collision type", cstring))),
             Let("destruction_action",
                 Latin1(Ctx("destruction action", cstring))),
             Let("destruction_category",
                 Latin1(Ctx("destruction category", cstring))),
             Let("penetration_type", Latin1(Ctx("penetration type", cstring))),
             Let("name2", Latin1(Ctx("name2", cstring))),
             Let("destruction_category2",
                 Latin1(Ctx("destruction category 2", cstring)))>>)

\* line 1045-1052
DynamicObjectKind_dynamic ==
    Variant("Dynamic",
        Struct(<<Let("common", Mark("common", DynamicObjectKindCommon_read)),
                 Let("params", Mark("params", KindDynamicParams_read))>>))

\* line 1055-1100
DynamicObjectKind_animation ==
    Variant("Animation",
        Struct(<<Let("common", Mark("common", DynamicObjectKindCommon_read)),
                 Let("unknown2", Ctx("unknown2", read_u32)),
                 Let("names",
                     List("animation names", Ctx("name count", read_u32),
                          Latin1(ICtx("animation name {i}", cstring)))),
                 Let("unknown3",
                     Array(3, ICtx("animation unknown3 {i}", read_f32))),
                 Let("unknown4", Ctx("animation unknown4", read_u32)),
                 Let("name3", Latin1(Ctx("animation name3", cstring))),
                 Let("name4", Latin1(Ctx("animation name4", cstring))),
                 Let("animation_type", Latin1(Ctx("animation type", cstring))),
                 Let("direction", Ctx("animation direction", Vec3f_read)),
                 Let("distance", Ctx("animation distance", read_f32)),
                 Let("velocity", Ctx("animation velocity", read_f32))>>))

\* line 1105-1156
DynamicObjectKind_repeatable_touchplate ==
    Variant("RepeatableTouchplate",
        Struct(<<Let("common", Mark("common", DynamicObjectKindCommon_read)),
                 Let("unknown1", Ctx("ADT unknown1", read_u32)),
                 Let("attachments",
                     List("ADT attachments",
                          Ctx("ADT attachment count", read_u32),
                          Latin1(ICtx("ADT attachment {i}", cstring)))),
                 Let("unknown2", Array(3, ICtx("ADT unknown2 {i}", read_f32))),
                 Let("names",
                     List("ADT names", Ctx("name count", read_u32),
                          Latin1(ICtx("ADT name {i}", cstring)))),
                 Let("name2", Latin1(Ctx("ADT name2", cstring))),
                 Let("name3", Latin1(Ctx("ADT name3", cstring))),
                 Let("animation_type", Latin1(Ctx("animation type", cstring))),
                 Let("direction", Ctx("animation direction", Vec3f_read)),
                 Let("distance", Ctx("animation distance", read_f32)),
                 Let("velocity", Ctx("animation velocity", read_f32))>>))

\* line 1159-1162
DynamicObjectKind_glass ==
    Variant("Glass", Struct(<<Let("name", Utf8(cstring))>>))

\* line 1165-1190
DynamicObjectKind_one_time_touchplate ==
    Variant("OneTimeTouchplate",
        Struct(<<Let("collision_type_2d",
                     Latin1(Ctx("one-time touchplate 2D collision type",
                                cstring))),
                 Let("collision_type_3d",
                     Latin1(Ctx("one-time touchplate 3D collision type",
                                cstring))),
                 Let("coordinates",
                     Ctx("one-time touchplate coordinates", Vec6f_read)),
                 Let("attachments",
                     List("one-time touchplate attachments",
                          Ctx("one-time touchplate attachment count", read_u32),
                          Latin1(ICtx("one-time touchplate attachment name {i} of {n}",
                                      cstring))))>>))

\* line 1196-1202: one (name, vec) of the halo list
Halo_read ==
    TupleOf(<<Let("name", Latin1(ICtx("halo name {i} of {count}", cstring))),
              Let("vec", ICtx("halo vec {i} of {count}", Vec8f_read))>>,
            <<"name", "vec">>)

\* line 1193-1205
DynamicObjectKind_halo ==
    Variant("Halo",
        Struct(<<Let("halos",
                     List("halos", Ctx("halo count", read_u32), Halo_read))>>))

\* line 1208-1211: nothing is read
DynamicObjectKind_static_effect == Variant("StaticEffect", Struct(<<>>))

\* line 685-697 with a last arm that gives a kind instead of bailing
Id_try_from_default(value) ==
    IF value = U32(14) THEN Some("Dynamic")
    ELSE IF value = U32(15) THEN Some("Animation")
    ELSE IF value = U32(16) THEN Some("RepeatableTouchplate")
    ELSE IF value = U32(20) THEN Some("Glass")
    ELSE IF value = U32(25) THEN Some("OneTimeTouchplate")
    ELSE IF value = U32(31) THEN Some("Halo")
    ELSE Some("StaticEffect")

\* line 685-697: the Id of a section id, none for an unhandled value
Id_try_from(value) ==
    IF value = U32(14) THEN Some("Dynamic")
    ELSE IF value = U32(15) THEN Some("Animation")
    ELSE IF value = U32(16) THEN Some("RepeatableTouchplate")
    ELSE IF value = U32(20) THEN Some("Glass")
    ELSE IF value = U32(25) THEN Some("OneTimeTouchplate")
    ELSE IF value = U32(31) THEN Some("Halo")
    ELSE IF value = U32(36) THEN Some("StaticEffect")
    ELSE None

\* line 1031-1042
DynamicObjectKind_read ==
    Match("kind_id",
          [Dynamic |-> DynamicObjectKind_dynamic,
           Animation |-> DynamicObjectKind_animation,
           RepeatableTouchplate |-> DynamicObjectKind_repeatable_touchplate,
           Glass |-> DynamicObjectKind_glass,
           OneTimeTouchplate |-> DynamicObjectKind_one_time_touchplate,
           Halo |-> DynamicObjectKind_halo,
           StaticEffect |-> DynamicObjectKind_static_effect])

\* line 702-719
DynamicObject_read ==
    StructOf(<<Let2("section_id", "section_name",
                    Ctx("dynamic object section header",
                        Call("section_header"))),
               Let("name", Latin1(Ctx("name", cstring))),
               Let("tm", Ctx("transformation matrix", TransformationMatrix_read)),
               Let("kind_id", Call("Id::try_from")),
               Let("kind", DynamicObjectKind_read)>>,
             {"section_id", "section_name", "name", "tm", "kind"})

\* line 626-636
DynamicObjects_read ==
    Struct(<<Let2("id", "name",
                  Ctx("dynamic objects section header", Call("section_header"))),
             Let("dynamic_objects",
                 List("dynamic objects",
                      Ctx("dynamic object count", read_u32),
                      ICtx("dynamic object {i} of {n}", DynamicObject_read)))>>)

\* line 1375-1384
TransformationWithAABB_read ==
    Struct(<<Let("tm", Ctx("TM + AABB", TransformationMatrix_read)),
             Let("aabb", Array(6, ICtx("level TM + AABB side {i}", read_f32)))>>)

\* line 1341-1365
ShermanLevel_read ==
    Struct(<<Let("name", Latin1(Ctx("level name", cstring))),
             Let("tm_with_aabb",
                 List("level TM + AABB", Ctx("level TM + AABB count", read_u32),
                      ICtx("level TM + AABBB {i}", TransformationWithAABB_read))),
             Let("unknown1",
                 List("level unknown1", Ctx("unknown count", read_u32),
                      ICtx("level unknown1 {i}", read_f32))),
             Let("unknown2", Ctx("level unknown2", read_u8))>>)

\* line 1397-1401
LevelHeight_read ==
    Struct(<<Let("height", Ctx("level height", read_f32)),
             Let("unknown", Ctx("level height unknown", read_f32))>>)

\* line 1259-1327
Room_read ==
    StructOf(<<Let2("section_id", "section_name",
                    Ctx("room section header short",
                        Call("section_header_short"))),
               Let("unknown1", Ctx("room unknown1", read_u8)),
               Let("unknown2", Ctx("room unknown2", read_u8)),
               Let("unknown3", Ctx("room unknown3", read_u8)),
               Let("unknown4",
                   Mark("unknown4",
                        Opt(Eq("unknown1", 0), Ctx("room unknown4", read_u8)))),
               Let("unknown5",
                   Mark("unknown5",
                        Opt(Eq("unknown3", 1),
                            Array(6, ICtx("room unknown5 {i}", read_f32))))),
               Let("unknown6",
                   Mark("unknown6",
                        Opt(SomeEq("unknown4", 1),
                            Array(6, ICtx("room unknown6 {i}", read_f32))))),
               Let("sherman_levels",
                   List("room levels", Ctx("room level count", read_u32),
                        ICtx("room sherman level {i} of {n}",
                             ShermanLevel_read))),
               Let("n", Ctx("room level heights count", read_u32)),
               Let("unknown7", Ctx("room unknown7", read_f32)),
               Let("level_heights",
                   Repeat("level heights", "n",
                          ICtx("room sherman level heights {i} of {n}",
                               LevelHeight_read)))>>,
             {"section_id", "section_name", "unknown1", "unknown2", "unknown3",
              "unknown4", "unknown5", "unknown6", "sherman_levels", "unknown7",
              "level_heights"})

\* line 1222-1233
Rooms_read ==
    Struct(<<Let2("section_id", "section_name",
                  Ctx("room list", Call("section_header"))),
             Let("rooms",
                 List("rooms", Ctx("room count", read_u32),
                      ICtx("room {i}", Room_read)))>>)

\* line 1449-1453
TransitionCoords_read ==
    Struct(<<Let("p1", Ctx("transition coords P1", Vec3f_read)),
             Let("p2", Ctx("transition coords P2", Vec3f_read))>>)

\* line 1435-1439
Transition_read ==
    Struct(<<Let("name", Latin1(Ctx("transition", cstring))),
             Let("coords", TransitionCoords_read)>>)

\* line 1412-1425
Transitions_read ==
    Struct(<<Let2("section_id", "section_name",
                  Ctx("transitions", Call("section_header"))),
             Let("transitions",
                 List("transitions", Ctx("transitions count", read_u32),
                      ICtx("transition {i} of {n}", Transition_read)))>>)

\* line 1486-1502
PlanningLevel_read ==
    Struct(<<Let("level_number", Ctx("planning level number", read_f32)),
             Let("floor_height", Ctx("planning level floor height", read_f32)),
             Let("room_names",
                 List("planning level room names",
                      Ctx("planning level room count", read_u32),
                      Latin1(ICtx("planning level room name {i} of {n}",
                                  cstring))))>>)

\* line 1464-1475
PlanningLevels_read ==
    Struct(<<Let2("section_id", "section_name",
                  Ctx("planning levels", Call("section_header"))),
             Let("levels",
                 List("planning levels", Ctx("planning levels count", read_u32),
                      ICtx("planning level {i} of {n}", PlanningLevel_read)))>>)

\* the readers that are written out as operators
CallRead(f, b, p, i, env, lg) ==
    CASE f = "section_header" -> section_header(b, p, lg)
      [] f = "section_header_short" -> section_header_short(b, p, lg)
      [] f = "TextureAddressMode::read" -> TextureAddressMode_read(b, p, lg)
      [] f = "Id::try_from" ->
            LET id == Id_try_from(env["section_id"])
            IN  IF id.some THEN Ok(p, id.val, lg)
                ELSE Fail(p, "unhandled id value", lg)

(***************************************************************************)
(* Map::read, line 32-58: one action per statement.  pc names the          *)
(* statement to run; the cursor is pos in buf, as for rsb::read.  After a  *)
(* failure pos is the position after the last read that succeeded.         *)
(***************************************************************************)

\* the record of an error: the loops it came out of, outermost first
Failed(res) == [k |-> "failure", loops |-> res.loops]

\* `let local = reader(buf).context(label)?;` where r is what reader gives
MapStep(at, local, r, label, next) ==
    /\ pc = at
    /\ LET res == Context(r, Lbl(label))
           seen == [k |-> "section", name |-> at, from |-> pos, to |-> res.pos,
                    ok |-> res.ok]
       IN  /\ pos' = res.pos
           /\ mlog' = IF res.ok THEN Append(res.log, seen)
                      ELSE Append(res.log, seen) \o <<Failed(res)>>
           /\ IF res.ok
              THEN /\ map' = (local :> res.val) @@ map
                   /\ pc' = next
                   /\ UNCHANGED <<err, chain>>
              ELSE /\ pc' = "err"
                   /\ err' = res.root
                   /\ chain' = res.chain
                   /\ UNCHANGED map
    /\ UNCHANGED <<build, buf, rsb, palette, size, masked_pixels, pixVars>>

\* line 33
ReadMapHeader ==
    MapStep("MapHeader", "header", MapHeader_read(buf, pos, mlog),
            "MAP Header", "Materials")

\* line 34
ReadMaterials ==
    MapStep("Materials", "materials",
            Read(Materials_read, buf, pos, 0, <<>>, mlog),
            "Materials List", "Geometries")

\* line 35
ReadGeometries ==
    MapStep("Geometries", "geometries",
            Read(Geometries_read, buf, pos, 0, <<>>, mlog),
            "Geometry List", "Portals")

\* line 36, with the statement of line 37 left out
ReadPortals_skip ==
    MapStep("Portals", "portals", Read(Portals_read, buf, pos, 0, <<>>, mlog),
            "Portal List", "DynamicObjects")

\* line 36
ReadPortals ==
    MapStep("Portals", "portals", Read(Portals_read, buf, pos, 0, <<>>, mlog),
            "Portal List", "Lights")

\* line 37
ReadLights ==
    MapStep("Lights", "lights", Read(Lights_read, buf, pos, 0, <<>>, mlog),
            "Light List", "DynamicObjects")

\* line 38-39
ReadDynamicObjects ==
    MapStep("DynamicObjects", "dynamic_objects",
            Read(DynamicObjects_read, buf, pos, 0, <<>>, mlog),
            "Dynamic Object List", "Rooms")

\* line 40
ReadRooms ==
    MapStep("Rooms", "rooms", Read(Rooms_read, buf, pos, 0, <<>>, mlog),
            "Rooms List", "Transitions")

\* line 41
ReadTransitions ==
    MapStep("Transitions", "transitions",
            Read(Transitions_read, buf, pos, 0, <<>>, mlog),
            "Transition List", "PlanningLevels")

\* line 42-43
ReadPlanningLevels ==
    MapStep("PlanningLevels", "planning_levels",
            Read(PlanningLevels_read, buf, pos, 0, <<>>, mlog),
            "Planning Levels List", "end")

\* line 45: what the string read at the end has to be
IsEnd_any(s) == TRUE

IsEnd(s) == s = END

\* line 45-57: the terminator, then Ok(Self { .. })
ReadEnd ==
    /\ pc = "end"
    /\ LET res == Context(read_cstring(buf, pos, mlog), Lbl("end"))
           seen == [k |-> "section", name |-> "end", from |-> pos,
                    to |-> res.pos, ok |-> res.ok /\ IsEnd(res.val)]
       IN  /\ pos' = res.pos
           /\ mlog' = Append(mlog, seen)
           /\ IF ~ res.ok
              THEN pc' = "err" /\ err' = res.root /\ chain' = res.chain
              ELSE IF ~ IsEnd(res.val)
              THEN pc' = "err" /\ err' = "missing MAP end" /\ chain' = <<>>
              ELSE pc' = "ok" /\ UNCHANGED <<err, chain>>
    /\ UNCHANGED <<build, buf, rsb, palette, size, masked_pixels, pixVars, map>>

\* the value Map::read has returned: Some(Map) after Ok, none otherwise
Returned == IF pc = "ok" THEN Some(map) ELSE None

\* line 34-43: the eight lists, each with the local it is bound to, its
\* reader and its context label
Statements ==
    <<[local |-> "materials", node |-> Materials_read,
       label |-> "Materials List"],
      [local |-> "geometries", node |-> Geometries_read,
       label |-> "Geometry List"],
      [local |-> "portals", node |-> Portals_read, label |-> "Portal List"],
      [local |-> "lights", node |-> Lights_read, label |-> "Light List"],
      [local |-> "dynamic_objects", node |-> DynamicObjects_read,
       label |-> "Dynamic Object List"],
      [local |-> "rooms", node |-> Rooms_read, label |-> "Rooms List"],
      [local |-> "transitions", node |-> Transitions_read,
       label |-> "Transition List"],
      [local |-> "planning_levels", node |-> PlanningLevels_read,
       label |-> "Planning Levels List"]>>

\* line 34-43: statements k.. of the eight, from offset p, with the locals m
RECURSIVE Map_sections(_, _, _, _)
Map_sections(b, k, p, m) ==
    IF k > Len(Statements) THEN Ok(p, m, <<>>)
    ELSE LET st == Statements[k]
             r == Context(Read(st.node, b, p, 0, <<>>, <<>>), Lbl(st.label))
         IN  IF ~ r.ok THEN r
             ELSE Map_sections(b, k + 1, r.pos, (st.local :> r.val) @@ m)

\* line 32-58: Map::read as one call on a cursor at the start of b
Map_read(b) ==
    LET h == Context(MapHeader_read(b, 0, <<>>), Lbl("MAP Header"))
        s == Map_sections(b, 1, h.pos, "header" :> h.val)
        e == Context(read_cstring(b, s.pos, <<>>), Lbl("end"))
    IN  IF ~ h.ok THEN h
        ELSE IF ~ s.ok THEN s
        ELSE IF ~ e.ok THEN e
        ELSE IF ~ IsEnd(e.val) THEN Fail(e.pos, "missing MAP end", <<>>)
        ELSE Ok(e.pos, s.val, <<>>)

NextMap ==
    \/ ReadMapHeader
    \/ ReadMaterials
    \/ ReadGeometries
    \/ ReadPortals
    \/ ReadLights
    \/ ReadDynamicObjects
    \/ ReadRooms
    \/ ReadTransitions
    \/ ReadPlanningLevels
    \/ ReadEnd

(***************************************************************************)
(* MAP files to decode.  They are laid out field by field as the readers   *)
(* above take them; counts, flags, ids and string bytes are varied one     *)
(* part at a time, and every prefix of some files is a file too.           *)
(***************************************************************************)
RECURSIVE Concat(_)
Concat(ss) == IF ss = <<>> THEN <<>> ELSE Head(ss) \o Concat(Tail(ss))

Copies(n, s) == Concat([k \in 1..n |-> s])

\* a length-prefixed string: the length, the bytes, one byte more
Str(s) == U32(Len(s) + 1) \o s \o <<0>>

\* 1.0f32 and n of them
OneF == <<0, 0, 128, 63>>
Floats(n) == Copies(n, OneF)

\* some names: "A", "B", the Latin-1 "é", and "é" in UTF-8
NameA == <<65>>
NameB == <<66>>
NameLatin == <<233>>
NameUtf == <<195, 169>>
Names == {NameA, NameLatin, NameUtf, <<>>, <<65, 233>>, <<255>>, <<128>>}

\* a long section header and a short one, the long one with `Version` too
Header(id, name) == U32(64) \o U32(id) \o Str(name)
HeaderShort(id, name) == U32(id) \o Str(name)
HeaderVersion(id, name) ==
    U32(64) \o U32(id) \o Str(VersionName) \o U32(1) \o Str(name)

\* a top-level section: header, count, the elements
SectionOf(id, name, elems) ==
    Header(id, name) \o U32(Len(elems)) \o Concat(elems)

MaterialBytes(name, mode) ==
    HeaderVersion(2, NameA) \o Str(name) \o OneF \o U32(0) \o U32(mode)
    \o Floats(12) \o OneF \o <<1>>

VertexBytes == Floats(3)

\* an object-data block with n faces and m texture vertices
ObjectDataBytes(n, m) ==
    U32(7) \o U32(n) \o Floats(4 * n) \o Copies(3 * n, U16(1))
    \o Copies(3 * n, U16(2))
    \o U32(m) \o Floats(3 * m) \o Floats(2 * m) \o Floats(4 * m)

EIndicesBytes(text, n) == Str(text) \o U32(5) \o U32(n) \o Copies(n, U16(3))

\* an object with v vertices, d object-data blocks of n faces, t tags and
\* the indexed names inds
ObjectBytes(v, d, n, t, inds) ==
    Header(3, NameA) \o Header(4, NameB)
    \o U32(v) \o Copies(v, VertexBytes)
    \o U32(d) \o Copies(d, ObjectDataBytes(n, n))
    \o U32(v) \o Copies(v, VertexBytes) \o U32(n) \o Floats(4 * n)
    \o U32(t) \o Copies(t, Copies(8, U16(9)))
    \o U32(Len(inds)) \o Concat(inds)

PortalBytes(n) ==
    Header(5, NameA) \o U32(n) \o Copies(n, VertexBytes) \o U32(1) \o U32(2)

CommonBytes(name) ==
    Floats(12) \o Str(name) \o U32(0) \o Copies(4, Str(NameA))
    \o Copies(7, Str(NameB))

\* the parameter block of a Dynamic object: c blocks, or 0, m names, 4 floats
ParamsBytes(c, m, name) ==
    IF c > 0
    THEN U32(c) \o Copies(c, Str(name) \o Floats(9) \o U32(1) \o U32(2))
    ELSE U32(0) \o U32(m) \o Copies(m, Str(name)) \o Floats(4)

AnimationBytes(n, name) ==
    CommonBytes(name) \o U32(0) \o U32(n) \o Copies(n, Str(name)) \o Floats(3)
    \o U32(0) \o Str(name) \o Str(NameA) \o Str(NameB) \o Floats(3)
    \o OneF \o OneF

TouchplateBytes(n, name) ==
    CommonBytes(name) \o U32(0) \o U32(n) \o Copies(n, Str(name)) \o Floats(3)
    \o U32(n) \o Copies(n, Str(NameB)) \o Str(name) \o Str(NameA) \o Str(NameB)
    \o Floats(3) \o OneF \o OneF

OneTimeBytes(n, name) ==
    Str(name) \o Str(NameA) \o Floats(6) \o U32(n) \o Copies(n, Str(name))

HaloBytes(n, name) == U32(n) \o Copies(n, Str(name) \o Floats(8))

\* the body that follows the header, name and matrix of a dynamic object
KindBytes(id, n, name) ==
    CASE id = 14 -> CommonBytes(name) \o ParamsBytes(n, n, name)
      [] id = 15 -> AnimationBytes(n, name)
      [] id = 16 -> TouchplateBytes(n, name)
      [] id = 20 -> Str(name)
      [] id = 25 -> OneTimeBytes(n, name)
      [] id = 31 -> HaloBytes(n, name)
      [] OTHER -> <<>>

DynamicObjectBytes(id, body) ==
    Header(id, NameA) \o Str(NameB) \o Floats(12) \o body

ShermanLevelBytes(n) ==
    Str(NameA) \o U32(n) \o Copies(n, Floats(18)) \o U32(n) \o Floats(n) \o <<1>>

\* a room with the flags f1, f2, f3, the optional fields a (one byte), b and
\* c (6 floats each) laid out or left out, n levels and n level heights
RoomBytes(f1, f3, a, hasA, hasB, hasC, n) ==
    HeaderShort(6, NameA) \o <<f1, 0, f3>>
    \o (IF hasA THEN <<a>> ELSE <<>>)
    \o (IF hasB THEN Floats(6) ELSE <<>>)
    \o (IF hasC THEN Floats(6) ELSE <<>>)
    \o U32(n) \o Copies(n, ShermanLevelBytes(n))
    \o U32(n) \o OneF \o Floats(2 * n)

TransitionBytes(name) == Str(name) \o Floats(6)

PlanningLevelBytes(n, name) == Floats(2) \o U32(n) \o Copies(n, Str(name))

\* a file: what comes first, the eight lists, what comes last
MapBytes(first, mats, objs, ports, lights, dyns, rooms, trans, plans, last) ==
    first
    \o SectionOf(10, NameA, mats)
    \o SectionOf(11, NameA, objs)
    \o SectionOf(12, NameA, ports)
    \o Header(13, NameA) \o lights
    \o SectionOf(14, NameA, dyns)
    \o SectionOf(15, NameA, rooms)
    \o SectionOf(16, NameA, trans)
    \o SectionOf(17, NameA, plans)
    \o last

\* the beginning of a file, with the timestamp t, and its end
Begin(t) == Str(MAGIC) \o t
EndBytes == Str(END)
Stamp == <<120, 86, 52, 18>>

\* the file with nothing in its lists, and the parts it is made of
EmptyMap(first, last) ==
    MapBytes(first, <<>>, <<>>, <<>>, U32(0), <<>>, <<>>, <<>>, <<>>, last)
Minimal(t) == EmptyMap(Begin(t), EndBytes)
\* the same with the `Version` form of the eight headers
MinimalVersion(t) ==
    Begin(t)
    \o Concat([k \in 1..8 |-> HeaderVersion(9 + k, NameB) \o U32(0)])
    \o EndBytes
Stamps == {Stamp, U32(0), U32Max}

\* what a file may begin with: the magic as a string, the bare literal,
\* strings that are not the magic, a magic with another last byte
Begins ==
    {Begin(Stamp), MAGIC \o Stamp, MAGIC \o <<0>> \o Stamp,
     U32(13) \o MAGIC \o <<7>> \o Stamp, U32(12) \o MAGIC \o Stamp,
     U32(0) \o MAGIC \o Stamp, U32Max \o MAGIC \o Stamp,
     Str(END) \o Stamp, Str(<<>>) \o Stamp,
     Str(MAGIC \o <<49>>) \o Stamp, Str(SubSeq(MAGIC, 1, 11)) \o Stamp}
    \cup {Str([MAGIC EXCEPT ![k] = 98]) \o Stamp : k \in {1, 7, 12}}

\* what a file may end with
Ends ==
    {EndBytes, <<>>, END, END \o <<0>>, U32(7) \o END \o <<9>>,
     EndBytes \o <<1, 2, 3>>, U32(0), U32(6) \o END, U32(8) \o END \o <<0, 0>>,
     U32(7) \o SubSeq(END, 1, 3), Str(MAGIC), Str(<<>>),
     Str([END EXCEPT ![1] = 101]), Str(SubSeq(END, 1, 5))}

Counts == 0..MaxCount
DynIds == {0, 13, 14, 15, 16, 17, 20, 25, 31, 36, 37, 270}
Modes == 0..4

\* a file with the given lists between the magic and the terminator
With(mats, objs, ports, lights, dyns, rooms, trans, plans) ==
    MapBytes(Begin(Stamp), mats, objs, ports, lights, dyns, rooms, trans, plans,
             EndBytes)

MaterialFiles ==
    {With([k \in 1..n |-> MaterialBytes(NameA, m)], <<>>, <<>>, U32(0), <<>>,
          <<>>, <<>>, <<>>) : n \in Counts, m \in Modes}
    \cup {With(<<MaterialBytes(s, 0)>>, <<>>, <<>>, U32(0), <<>>, <<>>, <<>>,
               <<>>) : s \in Names}

GeometryFiles ==
    {With(<<>>, [k \in 1..c |-> ObjectBytes(v, d, n, t, <<>>)], <<>>, U32(0),
          <<>>, <<>>, <<>>, <<>>) :
        c \in {1}, v \in Counts, d \in Counts, n \in Counts, t \in Counts}
    \cup {With(<<>>, [k \in 1..c |-> ObjectBytes(1, 1, 1, 1, <<>>)], <<>>,
               U32(0), <<>>, <<>>, <<>>, <<>>) : c \in Counts}
    \cup {With(<<>>, <<ObjectBytes(0, 0, 0, 0,
                                   [k \in 1..c |-> EIndicesBytes(s, n)])>>,
               <<>>, U32(0), <<>>, <<>>, <<>>, <<>>) :
            c \in Counts, n \in Counts, s \in Names}

PortalFiles ==
    {With(<<>>, <<>>, [k \in 1..c |-> PortalBytes(n)], U32(0), <<>>, <<>>,
          <<>>, <<>>) : c \in Counts, n \in Counts}

\* a light count, with nothing after it or with 12 bytes for each light
LightFiles ==
    {With(<<>>, <<>>, <<>>, U32(n) \o Copies(k, Floats(3)), <<>>, <<>>, <<>>,
          <<>>) : n \in Counts, k \in Counts}

DynamicObjectFiles ==
    {With(<<>>, <<>>, <<>>, U32(0),
          [k \in 1..c |-> DynamicObjectBytes(id, KindBytes(id, n, NameA))],
          <<>>, <<>>, <<>>) : c \in {1, 2}, id \in DynIds, n \in Counts}
    \cup {With(<<>>, <<>>, <<>>, U32(0),
               <<DynamicObjectBytes(id, KindBytes(id, 1, s))>>, <<>>, <<>>,
               <<>>) : id \in DynIds, s \in Names}
    \cup {With(<<>>, <<>>, <<>>, U32(0),
               <<DynamicObjectBytes(14, CommonBytes(NameA) \o U32(0) \o U32(m)
                                        \o Copies(k, Str(NameB)) \o Floats(f))>>,
               <<>>, <<>>, <<>>) : m \in Counts, k \in Counts, f \in {0, 4}}
    \cup {With(<<>>, <<>>, <<>>, U32(0),
               <<DynamicObjectBytes(14, CommonBytes(NameA) \o ParamsBytes(c, 0, NameB)
                                        \o tail)>>,
               <<>>, <<>>, <<>>) : c \in Counts, tail \in {<<>>, Floats(4)}}

RoomFiles ==
    {With(<<>>, <<>>, <<>>, U32(0), <<>>,
          <<RoomBytes(f1, f3, a, hasA, hasB, hasC, 0)>>, <<>>, <<>>) :
        f1 \in {0, 1}, f3 \in {0, 1, 2}, a \in {0, 1, 2},
        hasA \in BOOLEAN, hasB \in BOOLEAN, hasC \in BOOLEAN}
    \cup {With(<<>>, <<>>, <<>>, U32(0), <<>>,
               [k \in 1..c |-> RoomBytes(0, 1, 1, TRUE, TRUE, TRUE, n)], <<>>,
               <<>>) : c \in Counts, n \in Counts}

TransitionFiles ==
    {With(<<>>, <<>>, <<>>, U32(0), <<>>, <<>>,
          [k \in 1..c |-> TransitionBytes(s)], <<>>) : c \in Counts, s \in Names}

PlanningLevelFiles ==
    {With(<<>>, <<>>, <<>>, U32(0), <<>>, <<>>, <<>>,
          [k \in 1..c |-> PlanningLevelBytes(n, s)]) :
        c \in Counts, n \in Counts, s \in Names}

\* a file with one element of every sort
Whole ==
    With(<<MaterialBytes(NameA, 1)>>,
         <<ObjectBytes(1, 1, 1, 1, <<EIndicesBytes(NameA, 1)>>)>>,
         <<PortalBytes(1)>>, U32(0),
         [k \in 1..7 |->
            LET id == <<14, 15, 16, 20, 25, 31, 36>>[k]
            IN  DynamicObjectBytes(id, KindBytes(id, 1, NameA))]
         \o <<DynamicObjectBytes(14, CommonBytes(NameA)
                                      \o ParamsBytes(0, 1, NameA))>>,
         <<RoomBytes(0, 1, 1, TRUE, TRUE, TRUE, 1)>>,
         <<TransitionBytes(NameA)>>, <<PlanningLevelBytes(1, NameA)>>)

MapFiles ==
    {EmptyMap(first, EndBytes) : first \in Begins}
    \cup {EmptyMap(Begin(Stamp), last) : last \in Ends}
    \cup {Minimal(t) : t \in Stamps}
    \cup {MinimalVersion(t) : t \in Stamps}
    \cup Prefixes(Minimal(Stamp))
    \cup Prefixes(Whole)
    \cup MaterialFiles \cup GeometryFiles \cup PortalFiles \cup LightFiles
    \cup DynamicObjectFiles \cup RoomFiles \cup TransitionFiles
    \cup PlanningLevelFiles

InitMap ==
    /\ build = "release"
    /\ buf \in MapFiles
    /\ pos = 0
    /\ pc = "MapHeader"
    /\ map = <<>>
    /\ chain = <<>>
    /\ mlog = <<>>
    /\ err = ""
    /\ rsb = RsbDefault
    /\ palette = None
    /\ size = U32(0)
    /\ masked_pixels = <<>>
    /\ pixel = Bgra(U32(0))
    /\ bitmask = BitMaskDefault
    /\ call = NoCall

SpecMap == InitMap /\ [][NextMap]_vars

(***************************************************************************)
(* Claims about Map::read                                                  *)
(***************************************************************************)
\* the header statement has run, and the magic check has passed in it: the
\* header was read, or the read that failed is the one of the timestamp
HeaderRun == pc # "MapHeader"
TimestampFailed ==
    /\ pc = "err"
    /\ chain = <<Lbl("MAP Header"),
                 Lbl("failed to read file creation timestamp")>>
MagicPassed == "header" \in DOMAIN map \/ TimestampFailed
MagicMismatch == pc = "err" /\ err = "incorrect magic"

\* the first 12 bytes of the buffer are the literal
LiteralAtZero == Len(buf) >= 12 /\ SubSeq(buf, 1, 12) = MAGIC

\* C11 as stated: the magic is the 12 bytes at offset 0; a buffer that
\* begins with them passes the check, any other fails with the mismatch error
C11_LiteralAtOffset0 ==
    HeaderRun => /\ LiteralAtZero => MagicPassed
                 /\ ~ LiteralAtZero => MagicMismatch

\* the length word at offset 0 and the string of that length after it
LengthWord == SubSeq(buf, 1, 4)
StringPresent ==
    /\ Len(buf) >= 4
    /\ ~ IsZero(LengthWord)
    /\ IsSmall(LengthWord)
    /\ Len(buf) >= 4 + ToNat(LengthWord)
StringBytes == SubSeq(buf, 5, 4 + ToNat(LengthWord) - 1)
MagicReported == \E k \in 1..Len(mlog) :
                    mlog[k].k = "magic" /\ mlog[k].bytes = StringBytes

\* C11 amended: the file begins with a length-prefixed string; the check
\* passes iff the length is 13 and the 12 bytes at offset 4 are the literal;
\* another string fails with the mismatch error, which reports its bytes; no
\* string fails as the string read fails; the timestamp is the 4 bytes after
\* the string
C11_MagicIsString ==
    HeaderRun =>
        /\ MagicPassed <=> (StringPresent /\ LengthWord = U32(13)
                            /\ StringBytes = MAGIC)
        /\ (StringPresent /\ ~ MagicPassed) => (MagicMismatch /\ MagicReported)
        /\ ~ StringPresent =>
                /\ pc = "err"
                /\ err \in {"empty string", "UnexpectedEof"}
                /\ SubSeq(chain, 1, 2) = <<Lbl("MAP Header"), Lbl("missing magic")>>
        /\ "header" \in DOMAIN map =>
                /\ Len(buf) >= 21
                /\ map.header.timestamp = SubSeq(buf, 18, 21)
        /\ TimestampFailed => Len(buf) < 21

\* a header read from a buffer whose first 12 bytes are not the literal
C11_Witness ==
    /\ pc = "Materials"
    /\ ~ LiteralAtZero
    /\ map.header.timestamp = Stamp
    /\ pos = 21

\* the statements of Map::read in the order of the text, and those that have
\* run so far, each with the bytes it went over
SectionOrder ==
    <<"MapHeader", "Materials", "Geometries", "Portals", "Lights",
      "DynamicObjects", "Rooms", "Transitions", "PlanningLevels", "end">>
IsSection(e) == e.k = "section"
SectionsRead == SelectSeq(mlog, IsSection)

\* C12: the sections are read in the order header, Materials, Geometries,
\* Portals, Lights, DynamicObjects, Rooms, Transitions, PlanningLevels,
\* terminator; each starts at the byte where the one before ended; a section
\* is read only after all earlier ones succeeded; after a failure nothing
\* more is read
C12_ForwardInOrder ==
    LET s == SectionsRead
        n == Len(s)
    IN  /\ n <= Len(SectionOrder)
        /\ \A k \in 1..n :
              /\ s[k].name = SectionOrder[k]
              /\ s[k].from = (IF k = 1 THEN 0 ELSE s[k - 1].to)
              /\ s[k].from <= s[k].to
              /\ s[k].to <= Len(buf)
              /\ k < n => s[k].ok
        /\ pos = (IF n = 0 THEN 0 ELSE s[n].to)
        /\ pc = "err" <=> (n > 0 /\ ~ s[n].ok)
        /\ pc = "ok" <=> (n = Len(SectionOrder) /\ s[n].ok)
        /\ pc \notin {"err", "ok"} => pc = SectionOrder[n + 1]
        /\ pc \in {"err", "ok"} => ~ ENABLED NextMap

\* the file with one element of every sort has been read to its end
C12_Witness ==
    /\ pc = "ok"
    /\ buf = Whole
    /\ pos = Len(buf)
    /\ Len(map.dynamic_objects.dynamic_objects) = 8

\* the eight sections have decoded and the statement of the terminator has
\* run; the position the eight sections ended at
EndRun == Len(SectionsRead) = Len(SectionOrder)
EndAt == SectionsRead[9].to
\* the terminator lies at that position as the strings of the format do:
\* the length 7, the six bytes `EndMap`, one byte more
EndPresent ==
    /\ Len(buf) >= EndAt + 11
    /\ SubSeq(buf, EndAt + 1, EndAt + 4) = U32(7)
    /\ SubSeq(buf, EndAt + 5, EndAt + 10) = END
MapFields ==
    {"header", "materials", "geometries", "portals", "lights",
     "dynamic_objects", "rooms", "transitions", "planning_levels"}

KindTable ==
    {<<U32(14), "Dynamic">>, <<U32(15), "Animation">>,
     <<U32(16), "RepeatableTouchplate">>, <<U32(20), "Glass">>,
     <<U32(25), "OneTimeTouchplate">>, <<U32(31), "Halo">>,
     <<U32(36), "StaticEffect">>}
TableIds == {e[1] : e \in KindTable}

\* the statement of the DynamicObjects list has run; where the list begins;
\* the list has the header of the files above and at least one object, whose
\* header (size, id, name), name and matrix are all in the buffer
DynRun == Len(SectionsRead) >= 6
DynAt == SectionsRead[6].from
FirstObjectIn ==
    /\ DynRun
    /\ Len(buf) >= DynAt + 18 + 14 + 6 + 48
    /\ SubSeq(buf, DynAt + 1, DynAt + 14) = Header(14, NameA)
    /\ ~ IsZero(SubSeq(buf, DynAt + 15, DynAt + 18))
    /\ SubSeq(buf, DynAt + 27, DynAt + 32) = Str(NameA)
    /\ SubSeq(buf, DynAt + 33, DynAt + 38) = Str(NameB)
FirstObjectId == SubSeq(buf, DynAt + 23, DynAt + 26)

\* C14: the kind of every decoded DynamicObject is the one the table gives
\* for its section-header id; an object whose id is not in the table makes
\* the whole decode fail, so no Map holds such an object
C14_KindById ==
    /\ "dynamic_objects" \in DOMAIN map =>
          \A k \in 1..Len(map.dynamic_objects.dynamic_objects) :
              LET o == map.dynamic_objects.dynamic_objects[k]
              IN  <<o.section_id, o.kind.variant>> \in KindTable
    /\ (FirstObjectIn /\ FirstObjectId \notin TableIds) =>
          /\ pc = "err"
          /\ err = "unhandled id value"
          /\ "dynamic_objects" \notin DOMAIN map
          /\ ~ Returned.some
    /\ (FirstObjectIn /\ "dynamic_objects" \in DOMAIN map) =>
          map.dynamic_objects.dynamic_objects[1].section_id = FirstObjectId

\* an object with the id 13 has stopped the decode
C14_Witness ==
    /\ FirstObjectIn
    /\ FirstObjectId = U32(13)
    /\ pc = "err"
    /\ err = "unhandled id value"
    /\ chain = <<Lbl("Dynamic Object List"), LblAt("dynamic object {i} of {n}", 0)>>

\* the lists read so far, each with the count word it was read for
IsList(e) == e.k = "list"
ListsRead == SelectSeq(mlog, IsList)

\* the eight lists of a Map: the statement that reads each, and its elements
\* (the light list has none, it keeps the count)
TopLists ==
    <<[at |-> 2, length |-> Len(map.materials.materials)],
      [at |-> 3, length |-> Len(map.geometries.objects)],
      [at |-> 4, length |-> Len(map.portals.portals)],
      [at |-> 5, length |-> ToNat(map.lights.light_count)],
      [at |-> 6, length |-> Len(map.dynamic_objects.dynamic_objects)],
      [at |-> 7, length |-> Len(map.rooms.rooms)],
      [at |-> 8, length |-> Len(map.transitions.transitions)],
      [at |-> 9, length |-> Len(map.planning_levels.levels)]>>
\* the count word of the list read by statement k, in a file whose list
\* headers are those of the files above
CountWord(k) ==
    SubSeq(buf, SectionsRead[k].from + 15, SectionsRead[k].from + 18)

\* the face lists and texture-vertex blocks of the decoded objects
ObjectDatas ==
    UNION {{d : d \in {o.object_datas[j] : j \in 1..Len(o.object_datas)}} :
             o \in {map.geometries.objects[k] :
                       k \in 1..Len(map.geometries.objects)}}

ListKinds ==
    {"materials", "geometry objects", "vertices", "object data",
     "face normals", "face indices", "texture indices", "texture normals",
     "uv coords", "face colors", "collision vertices", "collision faces",
     "tags", "indexed names", "indices", "portals", "portal coordinates",
     "dynamic objects", "param structs", "flat names", "animation names", "ADT attachments",
     "ADT names", "one-time touchplate attachments", "halos", "rooms",
     "room levels", "level TM + AABB", "level unknown1", "level heights",
     "transitions", "planning levels", "planning level room names"}

IsMinimal(t) == buf = Minimal(t) \/ buf = MinimalVersion(t)

\* the decoded Map has nothing in its eight sections
AllEmpty(m) ==
    /\ m.materials.materials = <<>>
    /\ m.geometries.objects = <<>>
    /\ m.portals.portals = <<>>
    /\ m.lights.light_count = U32(0)
    /\ m.dynamic_objects.dynamic_objects = <<>>
    /\ m.rooms.rooms = <<>>
    /\ m.transitions.transitions = <<>>
    /\ m.planning_levels.levels = <<>>

\* C16: the decode of a minimal buffer never fails: it is at one of the ten
\* statements of Map::read or has returned; what it returns is a Map with the timestamp of the buffer and
\* eight empty sections
C16_MinimalDecodes ==
    \A t \in Stamps :
        IsMinimal(t) =>
            /\ pc # "err"
            /\ pc # "ok" => \E k \in 1..Len(SectionOrder) : pc = SectionOrder[k]
            /\ pc = "ok" =>
                  /\ Returned.some
                  /\ Returned.val.header.timestamp = t
                  /\ AllEmpty(Returned.val)
                  /\ pos = Len(buf)

\* the minimal buffer with the timestamp 0x12345678 has been decoded
C16_Witness ==
    /\ buf = Minimal(Stamp)
    /\ pc = "ok"
    /\ Returned.val.header.timestamp = <<120, 86, 52, 18>>
    /\ AllEmpty(Returned.val)

\* the extents of the three optional fields of the rooms read so far, in
\* the order they were read
IsRoomSpan(e) == e.k = "span" /\ e.tag \in {"unknown4", "unknown5", "unknown6"}
RoomSpans == SelectSeq(mlog, IsRoomSpan)
Width(e) == e.to - e.from
\* what the bytes of the file say about the optional fields that begin at
\* offset p, right after the three flag bytes
Flag1(p) == buf[p - 2]
Flag3(p) == buf[p]
HasA(p) == Flag1(p) = 0
HasB(p) == Flag3(p) = 1
HasC(p) == HasA(p) /\ buf[p + 1] = 1

\* C17: after the three flag bytes a room has field A (1 byte) iff flag1 is
\* 0, then field B (24 bytes) iff flag3 is 1, then field C (24 bytes) iff
\* field A was read as 1, each beginning where the one before ends; a
\* decoded room has unknown4, unknown5 and unknown6 accordingly
C17_RoomOptionalFields ==
    /\ \A j \in 1..Len(RoomSpans) :
          LET e == RoomSpans[j]
          IN  CASE j % 3 = 1 ->
                      /\ e.tag = "unknown4"
                      /\ Width(e) = IF HasA(e.from) THEN 1 ELSE 0
                [] j % 3 = 2 ->
                      /\ e.tag = "unknown5"
                      /\ e.from = RoomSpans[j - 1].to
                      /\ Width(e) = IF HasB(RoomSpans[j - 1].from) THEN 24 ELSE 0
                [] j % 3 = 0 ->
                      /\ e.tag = "unknown6"
                      /\ e.from = RoomSpans[j - 1].to
                      /\ Width(e) = IF HasC(RoomSpans[j - 2].from) THEN 24 ELSE 0
    /\ "rooms" \in DOMAIN map =>
          /\ Len(RoomSpans) = 3 * Len(map.rooms.rooms)
          /\ \A k \in 1..Len(map.rooms.rooms) :
                LET r == map.rooms.rooms[k]
                    at == RoomSpans[3 * k - 2].from
                IN  /\ r.unknown1 = Flag1(at)
                    /\ r.unknown3 = Flag3(at)
                    /\ r.unknown4.some <=> r.unknown1 = 0
                    /\ r.unknown4.some => r.unknown4.val = buf[at + 1]
                    /\ r.unknown5.some <=> r.unknown3 = 1
                    /\ r.unknown6.some <=> r.unknown4 = Some(1)
                    /\ r.unknown1 # 0 => ~ r.unknown6.some
                    /\ r.unknown5.some => Len(r.unknown5.val) = 6
                    /\ r.unknown6.some => Len(r.unknown6.val) = 6

\* a room with field A read as 1 and flag3 not 1 has been decoded: it has
\* field C and no field B
C17_Witness ==
    /\ pc = "ok"
    /\ Len(map.rooms.rooms) = 1
    /\ map.rooms.rooms[1].unknown4 = Some(1)
    /\ ~ map.rooms.rooms[1].unknown5.some
    /\ map.rooms.rooms[1].unknown6.some
    /\ Width(RoomSpans[1]) = 1 /\ Width(RoomSpans[2]) = 0
    /\ Width(RoomSpans[3]) = 24

\* the extents of the parameter blocks read so far, and the Dynamic objects
\* of the decoded list, both in the order they were read
IsParamSpan(e) == e.k = "span" /\ e.tag = "params"
ParamSpans == SelectSeq(mlog, IsParamSpan)
IsDynamic(o) == o.kind.variant = "Dynamic"
Dynamics == SelectSeq(map.dynamic_objects.dynamic_objects, IsDynamic)
\* the bytes a name takes in the file: length word, characters, terminator
NameBytes(s) == 4 + Len(Chars(s)) + 1
RECURSIVE NamesBytes(_)
NamesBytes(names) ==
    IF names = <<>> THEN 0
    ELSE NameBytes(Head(names)) + NamesBytes(Tail(names))
StructNames(structs) == [k \in 1..Len(structs) |-> structs[k].name]

\* C18: the parameter block of a decoded Dynamic object begins with a count
\* c; for c > 0 it is Struct with c blocks of a name, 9 floats and 2
\* integers and ends with the last block; for c = 0 it is Flat: the next
\* word is a count m, followed by m names and 4 floats, and it ends there
C18_StructOrFlat ==
    "dynamic_objects" \in DOMAIN map =>
        /\ Len(ParamSpans) = Len(Dynamics)
        /\ \A k \in 1..Len(Dynamics) :
              LET e == ParamSpans[k]
                  d == Dynamics[k].kind.params
                  c == SubSeq(buf, e.from + 1, e.from + 4)
                  m == SubSeq(buf, e.from + 5, e.from + 8)
              IN  IF ~ IsZero(c)
                  THEN /\ d.variant = "Struct"
                       /\ Len(d.structs) = ToNat(c)
                       /\ \A j \in 1..Len(d.structs) :
                             /\ Len(d.structs[j].unknown1) = 9
                             /\ Len(d.structs[j].unknown2) = 2
                       /\ Width(e) = 4 + NamesBytes(StructNames(d.structs))
                                        + Len(d.structs) * (9 * 4 + 2 * 4)
                  ELSE /\ d.variant = "Flat"
                       /\ Len(d.names) = ToNat(m)
                       /\ Len(d.unknown) = 4
                       /\ Width(e) = 4 + 4 + NamesBytes(d.names) + 4 * 4

\* a Dynamic object with the counts 0 and 0 has been decoded: no name, the
\* 4 floats
C18_Witness ==
    /\ pc = "ok"
    /\ Len(Dynamics) = 1
    /\ Dynamics[1].kind.params.variant = "Flat"
    /\ Dynamics[1].kind.params.names = <<>>
    /\ Dynamics[1].kind.params.unknown = [k \in 1..4 |-> OneF]
    /\ Width(ParamSpans[1]) = 24

(***************************************************************************)
(* Calls of read_cstring on a cursor: a buffer whose cursor stands before  *)
(* a length word (whole or cut short, small or beyond any buffer) and up   *)
(* to MaxText bytes.                                                       *)
(***************************************************************************)
TextBytes == {0, 65, 233}
Texts == UNION {[1..n -> TextBytes] : n \in 0..MaxText}
LengthWords ==
    {U32(n) : n \in 0..(MaxText + 1)}
    \cup {<<>>, <<1>>, <<1, 0, 0>>, <<0, 1, 0, 0>>, <<0, 0, 0, 128>>, U32Max}

InitCString ==
    /\ build = "release"
    /\ pos \in {0, 1}
    /\ buf \in {Copies(pos, <<7>>) \o l \o t : l \in LengthWords, t \in Texts}
    /\ pc = "idle"
    /\ call = NoCall
    /\ map = <<>>
    /\ chain = <<>>
    /\ mlog = <<>>
    /\ err = ""
    /\ rsb = RsbDefault
    /\ palette = None
    /\ size = U32(0)
    /\ masked_pixels = <<>>
    /\ pixel = Bgra(U32(0))
    /\ bitmask = BitMaskDefault

\* line 1543-1553: `buf.read_cstring()`
CallReadCString ==
    /\ pc = "idle"
    /\ LET res == read_cstring(buf, pos, mlog)
           seen == [k |-> "section", name |-> "read_cstring", from |-> pos,
                    to |-> res.pos, ok |-> res.ok]
       IN  /\ pos' = res.pos
           /\ mlog' = Append(res.log, seen)
           /\ IF res.ok
              THEN /\ call' = [fn |-> "read_cstring", out |-> Some(res.val)]
                   /\ pc' = "ok"
                   /\ UNCHANGED <<err, chain>>
              ELSE /\ call' = [fn |-> "read_cstring", out |-> None]
                   /\ pc' = "err"
                   /\ err' = res.root
                   /\ chain' = res.chain
    /\ UNCHANGED <<build, buf, rsb, palette, size, masked_pixels, pixel,
                   bitmask, map>>

NextCString == CallReadCString

SpecCString == InitCString /\ [][NextCString]_vars

(***************************************************************************)
(* Claims about read_cstring, checked under SpecCString                    *)
(***************************************************************************)
\* where the cursor stood at the call, what was left of the buffer there,
\* and the length word if it is whole
CalledAt == mlog[Len(mlog)].from
Remaining == Len(buf) - CalledAt
LengthRead == SubSeq(buf, CalledAt + 1, CalledAt + 4)

\* C19: read_cstring reads a 32-bit little-endian length L; if L < 1 it
\* fails with the empty-string error, the cursor just after the length; if
\* fewer than L bytes remain it fails with the end-of-input error; otherwise
\* the cursor advances by 4 + L and the first L - 1 of the L bytes are
\* returned, whatever the last one is
C19_ReadCString ==
    call.fn = "read_cstring" =>
        IF Remaining < 4
        THEN /\ ~ call.out.some
             /\ err = "UnexpectedEof"
             /\ chain = <<Lbl("could not read length")>>
        ELSE IF IsZero(LengthRead)
        THEN /\ ~ call.out.some
             /\ err = "empty string"
             /\ chain = <<>>
             /\ pos = CalledAt + 4
        ELSE IF NatLess(Remaining - 4, LengthRead)
        THEN /\ ~ call.out.some
             /\ err = "UnexpectedEof"
             /\ chain = <<Lbl("could not read {len} bytes")>>
        ELSE /\ call.out.some
             /\ err = ""
             /\ pos = CalledAt + 4 + ToNat(LengthRead)
             /\ call.out.val = SubSeq(buf, CalledAt + 5,
                                      CalledAt + 4 + ToNat(LengthRead) - 1)
             /\ Len(call.out.val) = ToNat(LengthRead) - 1

\* a string of length 2 has been read at offset 1 from a buffer with a byte
\* to spare: one byte is returned and the second, which is not 0, dropped
C19_Witness ==
    /\ call = [fn |-> "read_cstring", out |-> Some(<<233>>)]
    /\ CalledAt = 1
    /\ LengthRead = U32(2)
    /\ pos = 7
    /\ buf[pos] = 65
    /\ Len(buf) = 8

(***************************************************************************)
(* Claims about the strings of a Map, checked under SpecMap                *)
(***************************************************************************)
\* the Strings made so far of bytes read from the file
IsString(e) == e.k = "string"
StringsMade == SelectSeq(mlog, IsString)

\* C20 as stated: every String made of bytes read for a string field has as
\* many characters as there are bytes, character i having the code point
\* of byte i, and no byte of a string makes the decode fail
C20_StringsAreLatin1 ==
    /\ \A k \in 1..Len(StringsMade) :
          /\ StringsMade[k].str.some
          /\ Chars(StringsMade[k].str.val) = StringsMade[k].bytes
    /\ err # "FromUtf8Error"

(***************************************************************************)
(* Calls of section_header_short on a cursor: an id, a name that is or is  *)
(* not `Version`, and what may follow it (a word, a second name that may   *)
(* be `Version` too, a third), whole or cut short.                         *)
(***************************************************************************)
HeaderIds == {U32(2), U32(0), U32Max}
FirstNames ==
    {NameA, NameLatin, <<>>, VersionName, SubSeq(VersionName, 1, 6),
     VersionName \o <<115>>, [VersionName EXCEPT ![1] = 118]}
SecondNames == {NameB, NameLatin, VersionName}
VersionWords == {U32(1), U32(0), U32Max}
AfterName ==
    {<<>>, Str(NameB), Floats(2)}
    \cup {v \o Str(n) \o rest : v \in VersionWords, n \in SecondNames,
                                rest \in {<<>>, U32(1) \o Str(NameA)}}
HeaderBuffers ==
    {id \o Str(n) \o rest : id \in HeaderIds, n \in FirstNames, rest \in AfterName}
    \cup Prefixes(U32(2) \o Str(VersionName) \o U32(1) \o Str(NameB))

InitHeader ==
    /\ build = "release"
    /\ pos \in {0, 1}
    /\ buf \in {Copies(pos, <<7>>) \o h : h \in HeaderBuffers}
    /\ pc = "idle"
    /\ call = NoCall
    /\ map = <<>>
    /\ chain = <<>>
    /\ mlog = <<>>
    /\ err = ""
    /\ rsb = RsbDefault
    /\ palette = None
    /\ size = U32(0)
    /\ masked_pixels = <<>>
    /\ pixel = Bgra(U32(0))
    /\ bitmask = BitMaskDefault

\* line 1515-1529: `section_header_short(buf)`
CallSectionHeaderShort ==
    /\ pc = "idle"
    /\ LET res == section_header_short(buf, pos, mlog)
           seen == [k |-> "section", name |-> "section_header_short",
                    from |-> pos, to |-> res.pos, ok |-> res.ok]
       IN  /\ pos' = res.pos
           /\ mlog' = Append(res.log, seen)
           /\ IF res.ok
              THEN /\ call' = [fn |-> "section_header_short",
                               out |-> Some(res.val)]
                   /\ pc' = "ok"
                   /\ UNCHANGED <<err, chain>>
              ELSE /\ call' = [fn |-> "section_header_short", out |-> None]
                   /\ pc' = "err"
                   /\ err' = res.root
                   /\ chain' = res.chain
    /\ UNCHANGED <<build, buf, rsb, palette, size, masked_pixels, pixel,
                   bitmask, map>>

NextHeader == CallSectionHeaderShort

SpecHeader == InitHeader /\ [][NextHeader]_vars

(***************************************************************************)
(* Claims about section_header_short, checked under SpecHeader             *)
(***************************************************************************)
\* the string that lies at offset p of the buffer: its content bytes and
\* the offset just after it
ContentAt(p) == SubSeq(buf, p + 5, p + 4 + ToNat(SubSeq(buf, p + 1, p + 4)) - 1)
EndOf(p) == p + 4 + ToNat(SubSeq(buf, p + 1, p + 4))
\* a whole string lies at offset p
StringAt(p) ==
    /\ Len(buf) >= p + 4
    /\ IsSmall(SubSeq(buf, p + 1, p + 4))
    /\ ~ IsZero(SubSeq(buf, p + 1, p + 4))
    /\ Len(buf) >= EndOf(p)
\* the first name of the header read at CalledAt, and where the second name
\* lies when a word follows the first
FirstName == ContentAt(CalledAt + 4)
SecondAt == EndOf(CalledAt + 4) + 4

\* C21: a header that is returned has the first word as its id; its name is
\* the first string unless that string is `Version`, and then a word is
\* skipped and the name is the next string, `Version` or not; the cursor is
\* left just after the string returned
C21_VersionOnce ==
    (call.fn = "section_header_short" /\ call.out.some) =>
        /\ call.out.val[1] = SubSeq(buf, CalledAt + 1, CalledAt + 4)
        /\ StringAt(CalledAt + 4)
        /\ IF FirstName = VersionName
           THEN /\ StringAt(SecondAt)
                /\ call.out.val[2] = latin1_to_utf8(ContentAt(SecondAt))
                /\ pos = EndOf(SecondAt)
           ELSE /\ call.out.val[2] = latin1_to_utf8(FirstName)
                /\ pos = EndOf(CalledAt + 4)

\* the name after `Version` was `Version` again: it is the name returned,
\* and the word and string that follow it are left unread
C21_Witness ==
    /\ call = [fn |-> "section_header_short",
               out |-> Some(<<U32Max, VersionName>>)]
    /\ FirstName = VersionName
    /\ ContentAt(SecondAt) = VersionName
    /\ pos = EndOf(SecondAt)
    /\ Len(buf) = pos + 4 + 6

(***************************************************************************)
(* Claims about the words a section header drops, checked under SpecMap    *)
(***************************************************************************)
\* what a call of Map::read gave: Ok or not, the cursor, the Map, the error
Outcome(r) ==
    [ok |-> r.ok, pos |-> r.pos, val |-> IF r.ok THEN r.val ELSE <<>>,
     err |-> IF r.ok THEN "" ELSE r.root,
     chain |-> IF r.ok THEN <<>> ELSE r.chain]
\* the same of the decode that has ended in this state
Ended == pc \in {"ok", "err"}
Reached ==
    [ok |-> pc = "ok", pos |-> pos, val |-> IF pc = "ok" THEN map ELSE <<>>,
     err |-> err, chain |-> chain]

\* the section sizes and inline version numbers that were read and dropped
IsDropped(e) == e.k = "span" /\ e.tag \in {"size", "version"}
DroppedWords == SelectSeq(mlog, IsDropped)
\* the buffer b with the word v in the place of each of them
RECURSIVE Rewrite(_, _, _)
Rewrite(b, words, v) ==
    IF words = <<>> THEN b
    ELSE Rewrite(SubSeq(b, 1, Head(words).from) \o v
                 \o SubSeq(b, Head(words).to + 1, Len(b)), Tail(words), v)
Rewritten(v) == Rewrite(buf, DroppedWords, v)
WordValues == {U32(0), U32(7), U32Max}

\* C22: a buffer that differs from the one decoded only in the section
\* sizes and inline version numbers has the same outcome: the same Map, or
\* the same error with the same chain, and the same number of bytes consumed
C22_SizeIgnored ==
    Ended =>
        /\ Outcome(Map_read(buf)) = Reached
        /\ \A v \in WordValues : Outcome(Map_read(Rewritten(v))) = Reached

\* a Map with an element in every list has been decoded; the buffer has a
\* size in the header of each list and element that has one, and version
\* numbers, and the buffer with other words in their places differs from it
C22_Witness ==
    /\ pc = "ok"
    /\ buf = Whole
    /\ Cardinality({DroppedWords[k].from : k \in 1..Len(DroppedWords)}) >= 20
    /\ \E k \in 1..Len(DroppedWords) : DroppedWords[k].tag = "version"
    /\ \A v \in WordValues : Rewritten(v) # buf

(***************************************************************************)
(* Claims about the chain of an error, checked under SpecMap               *)
(***************************************************************************)
\* the error of the decode that has failed: the loops it came out of
IsFailure(e) == e.k = "failure"
Failures == SelectSeq(mlog, IsFailure)
\* the labels of list elements in the chain, and the elements they name
IsIndexed(l) == l[2] >= 0
ElementsNamed ==
    LET ls == SelectSeq(chain, IsIndexed) IN [k \in 1..Len(ls) |-> ls[k][2]]
TopLabels == {Statements[k].label : k \in 1..Len(Statements)}

\* C23 as stated: the chain of a decode that failed at a read for lack of
\* bytes begins with the label of the top-level section and names, outermost
\* first, every list element the failing read lies in
C23_ChainComplete ==
    (pc = "err" /\ err = "UnexpectedEof" /\ Failures # <<>>) =>
        /\ chain # <<>>
        /\ chain[1][1] \in TopLabels \cup {"MAP Header"}
        /\ ElementsNamed = Failures[1].loops

(***************************************************************************)
(* Claims about the failures of rsb::read, checked under Spec              *)
(***************************************************************************)
\* the number of pixels the header announces, when it is below 2^31
Announced == FullMul(InWidth, InHeight)
\* the file has every byte its header announces: the 12 or 16 bytes of the
\* header, then mask and 2-byte pixels, or table, 1-byte indices, mask and
\* 2-byte pixels
WholeFile ==
    /\ Len(buf) >= 12
    /\ IsSmall(Announced)
    /\ IF InVersion = U32(0)
       THEN /\ Len(buf) >= 16
            /\ IF InSelector = U32(1)
               THEN Len(buf) - 16 - PaletteTableLen - 16 >= 0
                    /\ (Len(buf) - 16 - PaletteTableLen - 16) \div 3
                          >= ToNat(Announced)
               ELSE Len(buf) - 32 >= 0
                    /\ (Len(buf) - 32) \div 2 >= ToNat(Announced)
       ELSE Len(buf) - 28 >= 0 /\ (Len(buf) - 28) \div 2 >= ToNat(Announced)

\* C24 as stated, for rsb::read: the call never panics; it returns an error
\* for a version >= 2, for a palette mode other than 0 and 1, and for a
\* buffer that ends before the last byte its header announces
C24_ErrorNeverPanic ==
    /\ pc # "panic"
    /\ pc = "ok" =>
          /\ ~ AtLeast(InVersion, 2)
          /\ InVersion = U32(0) => InSelector \in {U32(0), U32(1)}
          /\ WholeFile

(***************************************************************************)
(* Claims about the Lights section, checked under SpecMap                  *)
(***************************************************************************)
\* the statement of the Lights list has run and returned a value, on a
\* file whose Lights header is the one of the files above
LightsAt == SectionsRead[5].from
LightsRead ==
    /\ Len(SectionsRead) >= 5
    /\ SectionsRead[5].ok
    /\ SubSeq(buf, LightsAt + 1, LightsAt + 14) = Header(13, NameA)

\* C25 as stated, for the Lights section: after the header and the count n
\* the reader consumes n light records, so for n > 0 it leaves the cursor
\* past the count word, by at least a byte for each record
C25_LightRecordsConsumed ==
    (LightsRead /\ ~ IsZero(CountWord(5))) =>
        SectionsRead[5].to >= LightsAt + 18 + ToNat(CountWord(5))

(***************************************************************************)
(* Claims about the common block of dynamic objects, checked under SpecMap *)
(***************************************************************************)
\* the extents of the common blocks read so far, and the objects of the
\* decoded list that have one, both in the order they were read
IsCommonSpan(e) == e.k = "span" /\ e.tag = "common"
CommonSpans == SelectSeq(mlog, IsCommonSpan)
HasCommon(o) ==
    o.kind.variant \in {"Dynamic", "Animation", "RepeatableTouchplate"}
WithCommon == SelectSeq(map.dynamic_objects.dynamic_objects, HasCommon)

\* the offset after n strings that lie one after the other from offset p,
\* -1 if there are not that many whole strings
RECURSIVE AfterStrings(_, _)
AfterStrings(p, n) ==
    IF n = 0 THEN p
    ELSE IF p < 0 \/ ~ StringAt(p) THEN -1
    ELSE AfterStrings(EndOf(p), n - 1)
\* in the block that begins at p: where the name lies, the flag word, and
\* string k of those that follow the flag
CommonName(p) == p + 12 * 4
CommonFlag(p) == AfterStrings(CommonName(p), 1)
CommonString(p, k) == AfterStrings(CommonFlag(p) + 4, k - 1)
\* the block that begins at p is 12 floats, a name, a word and n strings
CommonEnds(e, n) ==
    /\ StringAt(CommonName(e.from))
    /\ e.to = AfterStrings(CommonFlag(e.from) + 4, n)

\* C26 as stated: the common block is 12 floats, a name, a flag word, four
\* sound names and six more strings, 11 strings in all
C26_ElevenStrings ==
    \A k \in 1..Len(CommonSpans) : CommonEnds(CommonSpans[k], 4 + 6)

\* the strings of a decoded block that follow its sounds, in the order of
\* the reads
Classifications(c) ==
    <<c.collision_type_2d, c.collision_type_3d, c.destruction_action,
      c.destruction_category, c.penetration_type, c.name2,
      c.destruction_category2>>

\* C26: the common block is 12 floats, a name, a flag word, four sound
\* names and seven more strings, 12 strings in all, each field of the
\* decoded block being the one that lies at its place in that order; what
\* follows the block begins right after the seventh
C26_TwelveStrings ==
    /\ \A k \in 1..Len(CommonSpans) : CommonEnds(CommonSpans[k], 4 + 7)
    /\ "dynamic_objects" \in DOMAIN map =>
          /\ Len(CommonSpans) = Len(WithCommon)
          /\ \A k \in 1..Len(WithCommon) :
                LET p == CommonSpans[k].from
                    c == WithCommon[k].kind.common
                IN  /\ c.name = latin1_to_utf8(ContentAt(CommonName(p)))
                    /\ c.unknown1
                          = SubSeq(buf, CommonFlag(p) + 1, CommonFlag(p) + 4)
                    /\ \A j \in 1..4 :
                          c.sounds[j]
                              = latin1_to_utf8(ContentAt(CommonString(p, j)))
                    /\ \A j \in 1..7 :
                          Classifications(c)[j]
                              = latin1_to_utf8(ContentAt(CommonString(p, 4 + j)))

\* the Map with an object of every kind has been decoded: three of them
\* have a common block, whose sounds are "A" and whose other strings are "B"
C26_Witness ==
    /\ pc = "ok"
    /\ buf = Whole
    /\ Len(WithCommon) = 4
    /\ WithCommon[2].kind.variant = "Animation"
    /\ WithCommon[3].kind.variant = "RepeatableTouchplate"
    /\ WithCommon[2].kind.common.sounds = <<NameA, NameA, NameA, NameA>>
    /\ Classifications(WithCommon[2].kind.common) = [j \in 1..7 |-> NameB]
    /\ CommonSpans[2].to - CommonSpans[2].from = 48 + 6 + 4 + 11 * 6

(***************************************************************************)
(* Claims about the packed pixels of rsb::read, checked under Spec         *)
(***************************************************************************)
\* where the array of packed pixels begins: after the header and the mask
PackedAt == IF InVersion = U32(0) THEN 32 ELSE 28
\* the 16-bit word of packed pixel i (from 1) as it lies in the file
PackedWord(i) == SubSeq(buf, PackedAt + 2 * i - 1, PackedAt + 2 * i)

\* C27 as stated: without a palette every pixel read is the 16-bit
\* little-endian word at its place, zero-extended, so it is below 2^16,
\* whatever the mask; and after a successful read the array occupies
\* 2 x width x height bytes of the file
C27_TwoBytesPerPixel ==
    /\ (Len(rsb.pixels) > 0 /\ ~ InPalette1) =>
          \A i \in 1..Len(rsb.pixels) :
              /\ rsb.pixels[i].kind \in {"Argb", "Bgra"}
              /\ rsb.pixels[i].bits = PackedWord(i) \o <<0, 0>>
    /\ (pc = "pixels" /\ ~ InPalette1) => pos = PackedAt + 2 * Len(rsb.pixels)
    /\ (pc = "ok" /\ ~ InPalette1) =>
          /\ pos = PackedAt + 2 * Len(rsb.pixels)
          /\ LE(Len(rsb.pixels), 8) = FullMul(InWidth, InHeight)

(***************************************************************************)
(* A caller of rsb::read that goes on to the channel accessors, as the     *)
(* viewer does (examples/rsb-viewer.rs 34-47): SpecView                    *)
(***************************************************************************)
Accessors == {"r", "g", "b", "a"}

\* the accessor of that name
Accessor(fn, p, m, bld) ==
    CASE fn = "r" -> Pixel_r(p, m, bld)
      [] fn = "g" -> Pixel_g(p, m, bld)
      [] fn = "b" -> Pixel_b(p, m, bld)
      [] fn = "a" -> Pixel_a(p, m, bld)

\* rsb-viewer.rs 34-37: an accessor called on an element of rsb.pixels with
\* rsb.bitmask
ViewPixel ==
    /\ pc = "ok"
    /\ call = NoCall
    /\ \E i \in 1..Len(rsb.pixels), fn \in Accessors :
          /\ pixel' = rsb.pixels[i]
          /\ bitmask' = rsb.bitmask
          /\ call' = [fn |-> fn, out |-> Accessor(fn, rsb.pixels[i], rsb.bitmask, build)]
    /\ UNCHANGED <<build, rsbVars, mapVars>>

\* the same on an element of rsb.masked_pixels (rsb.rs 286-301)
ViewMaskedPixel ==
    /\ pc = "ok"
    /\ call = NoCall
    /\ rsb.masked_pixels.some
    /\ \E i \in 1..Len(rsb.masked_pixels.val), fn \in Accessors :
          /\ pixel' = rsb.masked_pixels.val[i]
          /\ bitmask' = rsb.bitmask
          /\ call' = [fn |-> fn,
                      out |-> Accessor(fn, rsb.masked_pixels.val[i], rsb.bitmask, build)]
    /\ UNCHANGED <<build, rsbVars, mapVars>>

NextView ==
    \/ Next
    \/ ViewPixel
    \/ ViewMaskedPixel

SpecView == Init /\ [][NextView]_vars

\* the mask that follows the array of palette indices
InMask2At == 16 + PaletteTableLen + Len(rsb.pixels)
InMask2 ==
    BitMask(SubSeq(buf, InMask2At + 1, InMask2At + 4), SubSeq(buf, InMask2At + 5, InMask2At + 8),
            SubSeq(buf, InMask2At + 9, InMask2At + 12), SubSeq(buf, InMask2At + 13, InMask2At + 16))

Called == call.fn \in Accessors

\* C28: an accessor called on a PaletteColorIndex pixel aborts, whatever the
\* mask and the build.  In the Rsb read from a version-0 palette-1 file every
\* element of pixels is a PaletteColorIndex, masked_pixels is present with
\* one MaskedPixel per index and the bitmask is the mask that follows the
\* index array; so an accessor called on an element of pixels aborts, and a
\* call that returns (Some or None) was made on an element of masked_pixels
\* with that mask.
C28_PaletteIndexAborts ==
    /\ (Called /\ pixel.kind = "PaletteColorIndex") => call.out = Panic
    /\ (pc = "ok" /\ InPalette1) =>
          /\ \A i \in 1..Len(rsb.pixels) : rsb.pixels[i].kind = "PaletteColorIndex"
          /\ rsb.masked_pixels.some
          /\ Len(rsb.masked_pixels.val) = Len(rsb.pixels)
          /\ \A i \in 1..Len(rsb.masked_pixels.val) :
                rsb.masked_pixels.val[i].kind = "MaskedPixel"
          /\ Len(buf) >= InMask2At + 16
          /\ rsb.bitmask = InMask2
    /\ (Called /\ InPalette1 /\ call.out # Panic) =>
          /\ pixel.kind = "MaskedPixel"
          /\ bitmask = InMask2

C28_Witness ==
    /\ Called
    /\ InPalette1
    /\ pixel.kind = "PaletteColorIndex"
    /\ call.out = Panic
    /\ Len(rsb.pixels) >= 2
    /\ bitmask = M565

(***************************************************************************)
(* Shift counts of the accessors, checked under SpecPixel                  *)
(***************************************************************************)
\* the size in bits of the word a pixel holds (rsb.rs 207-209, 283)
WordSize(kind) == IF kind = "MaskedPixel" THEN 16 ELSE 32

\* v < 2^w
BelowPow(v, w) == \A i \in 0..(8 * Len(v) - 1) : i >= w => BitOf(v, i) = 0

\* the two shift counts of `masked`: the width of the channel, in
\* `1 << channel`, and the sum of the widths below it, in `<< shift`
ChannelCount == Capped(bitmask[call.fn] \o <<0>>)
ShiftCount == Capped(WideSum(Below(pixel.kind, bitmask, call.fn)))

Fits ==
    /\ pixel.kind \in {"Argb", "Bgra", "MaskedPixel"}
    /\ call.fn \in Channels
    /\ TotalAtMost(bitmask, WordSize(pixel.kind))

\* C29: for a mask whose total width is at most the word size of the pixel,
\* an accessor does not overflow a shift: it does not panic and, for a
\* channel of nonzero width w, both shift counts are below the word size
\* and it returns Some(v) with v < 2^w.
C29_NoShiftOverflow ==
    Fits =>
        /\ ~ call.out.panic
        /\ ~ IsZero(bitmask[call.fn]) =>
              /\ ChannelCount < WordSize(pixel.kind)
              /\ ShiftCount < WordSize(pixel.kind)
              /\ call.out.some
              /\ BelowPow(call.out.val, ChannelCount)

\* the texture address mode words read so far, in the order they were read
IsModeSpan(e) == e.k = "span" /\ e.tag = "address_mode"
ModeSpans == SelectSeq(mlog, IsModeSpan)
ModeWord(e) == SubSeq(buf, e.from + 1, e.to)
Accepted == {U32(0), U32(1), U32(3)}
UnknownMode == "unknown texture mode address value"

\* C30: the mode word of a material is accepted only when it is 0, 1 or 3,
\* and gives Opaque, Wrap and Clamp.  Any other word, 2 included, is the
\* last thing Map::read reads: the decode has failed with the cursor right
\* after that word, so that no color of the material was read, no materials
\* list was made and no Map is returned.
C30_ModeWord ==
    LET s == ModeSpans
    IN  /\ \A k \in 1..Len(s) :
              /\ s[k].to = s[k].from + 4
              /\ s[k].to <= Len(buf)
              /\ k < Len(s) => ModeWord(s[k]) \in Accepted
              /\ ModeWord(s[k]) \notin Accepted =>
                    /\ pc = "err"
                    /\ err = UnknownMode
                    /\ pos = s[k].to
                    /\ "materials" \notin DOMAIN map
                    /\ ~ Returned.some
        /\ err = UnknownMode =>
              Len(s) > 0 /\ ModeWord(s[Len(s)]) \notin Accepted
        /\ "materials" \in DOMAIN map =>
              /\ Len(map.materials.materials) = Len(s)
              /\ \A k \in 1..Len(s) :
                    map.materials.materials[k].address_mode =
                        (CASE ModeWord(s[k]) = U32(0) -> "Opaque"
                           [] ModeWord(s[k]) = U32(1) -> "Wrap"
                           [] ModeWord(s[k]) = U32(3) -> "Clamp"
                           [] OTHER -> "none")

\* a material with the mode word 2 has stopped the decode
C30_Witness ==
    /\ pc = "err"
    /\ err = UnknownMode
    /\ Len(ModeSpans) = 1
    /\ ModeWord(ModeSpans[1]) = U32(2)
    /\ pos = ModeSpans[1].to
    /\ Len(buf) > pos + 48

====
